---- MODULE Spec2Model ----
(***************************************************************************)
(* A model of the Beatport adapter: the API client (beatport_api.py,       *)
(* class BeatportApi) and the interface adapter (interface.py, class       *)
(* ModuleInterface).  The host constructs the adapter, calls one operation *)
(* at a time and takes its result; the vendor's server is a table of       *)
(* resources keyed by endpoint path.  Python strings are TLA+ strings,     *)
(* read character by character with SubSeq.                                *)
(***************************************************************************)
EXTENDS Integers, Sequences, FiniteSets, TLC

VARIABLES pc, adapter, session, op, args, result, requests, debug_log

vars == <<pc, adapter, session, op, args, result, requests, debug_log>>

(***************************************************************************)
(* Bounds of the model.                                                    *)
(***************************************************************************)
\* the largest number of track pages a list resource of the server spans
MaxPages == 3
\* the largest page number the host passes to a paged client call
MaxPageArg == 3

(***************************************************************************)
(* Python values.                                                          *)
(***************************************************************************)
\* None, where the other values of the field are strings
None == "None"
\* None, where the other values of the field are numbers or records
Nothing == <<>>
Some(x) == <<x>>

Ret(v) == [kind |-> "return", value |-> v]
Raise(exc, detail) == [kind |-> "raise", exc |-> exc, detail |-> detail]
Returned(r) == r.kind = "return"
Raised(r) == r.kind = "raise"

Min(S) == CHOOSE x \in S : \A y \in S : x <= y
Max(S) == CHOOSE x \in S : \A y \in S : x >= y

(***************************************************************************)
(* Strings.                                                                *)
(***************************************************************************)
Digits == {"0", "1", "2", "3", "4", "5", "6", "7", "8", "9"}
Lower == {"a", "b", "c", "d", "e", "f", "g", "h", "i", "j", "k", "l", "m",
          "n", "o", "p", "q", "r", "s", "t", "u", "v", "w", "x", "y", "z"}

\* s[i], or "" beyond the ends
Ch(s, i) == IF i >= 1 /\ i <= Len(s) THEN SubSeq(s, i, i) ELSE ""

\* s[i:] starts with the literal lit
LitAt(s, i, lit) ==
    /\ i >= 1
    /\ i + Len(lit) - 1 <= Len(s)
    /\ SubSeq(s, i, i + Len(lit) - 1) = lit

\* the position after the longest run of digits that starts at i
RECURSIVE DigitsEnd(_, _)
DigitsEnd(s, i) == IF Ch(s, i) \in Digits THEN DigitsEnd(s, i + 1) ELSE i

\* the position after the longest run of at most n digits that starts at i
RECURSIVE DigitsEndUpTo(_, _, _)
DigitsEndUpTo(s, i, n) ==
    IF n > 0 /\ Ch(s, i) \in Digits THEN DigitsEndUpTo(s, i + 1, n - 1) ELSE i

\* Python's `sub in s`
Contains(s, sub) == \E i \in 1..(Len(s) + 1) : LitAt(s, i, sub)

\* s[i:j], Python's half-open slice with 1-based i
Slice(s, i, j) == IF j <= i THEN "" ELSE SubSeq(s, i, j - 1)

DigitOf(d) == CASE d = 0 -> "0" [] d = 1 -> "1" [] d = 2 -> "2" [] d = 3 -> "3"
                [] d = 4 -> "4" [] d = 5 -> "5" [] d = 6 -> "6" [] d = 7 -> "7"
                [] d = 8 -> "8" [] d = 9 -> "9"

\* Python's str(n) of an int
RECURSIVE StrNat(_)
StrNat(n) == IF n < 10 THEN DigitOf(n) ELSE StrNat(n \div 10) \o DigitOf(n % 10)
Str(n) == IF n < 0 THEN "-" \o StrNat(0 - n) ELSE StrNat(n)


\* Python's s.split(): the words of s between runs of blanks, from position i on
RECURSIVE SplitFrom(_, _)
SplitFrom(s, i) ==
    LET starts == {j \in i..Len(s) : Ch(s, j) # " "}
    IN  IF starts = {} THEN <<>>
        ELSE LET b == Min(starts)
                 ends == {j \in b..Len(s) : Ch(s, j) = " "}
                 e == IF ends = {} THEN Len(s) + 1 ELSE Min(ends)
             IN  <<Slice(s, b, e)>> \o SplitFrom(s, e)
Split(s) == SplitFrom(s, 1)

\* Python's `x in list`
InList(x, list) == \E i \in 1..Len(list) : list[i] = x

\* the first alternative (in the regex engine's order of preference) that matched
First(opts) ==
    LET S == {i \in 1..Len(opts) : opts[i] # Nothing}
    IN  IF S = {} THEN Nothing ELSE opts[Min(S)]

(***************************************************************************)
(* The vendor's server.  srv.res maps an endpoint path to a resource: a    *)
(* JSON document, a paged list, or a response given whole.  srv.force_at   *)
(* = k makes the k-th request of the call answer srv.forced instead.       *)
(***************************************************************************)
Response(status, text, json) ==
    [status |-> status, text |-> text, json |-> json,
     cookies |-> Nothing, location |-> ""]

NotFoundBody == "{\"detail\": \"Not found.\"}"

\* page `page` of a list resource, as the vendor's paged endpoints serve it
PageDoc(items, page, per_page) ==
    [count |-> Len(items),
     results |-> SubSeq(items, (page - 1) * per_page + 1,
                        Min({page * per_page, Len(items)}))]

Respond(srv, idx, endpoint, params) ==
    IF idx = srv.force_at THEN srv.forced
    ELSE IF endpoint \notin DOMAIN srv.res THEN Response(404, NotFoundBody, Nothing)
    ELSE LET r == srv.res[endpoint]
         IN  CASE r.kind = "doc" -> Response(200, "<json>", r.doc)
               [] r.kind = "list" ->
                    Response(200, "<json>", PageDoc(r.items, params.page, params.per_page))
               [] r.kind = "raw" -> r.response

(***************************************************************************)
(* beatport_api.py: class BeatportApi.  Every client call takes the server *)
(* and the log of the requests issued so far, and gives the log extended   *)
(* by its own request and what it returned or raised.                      *)
(***************************************************************************)
API_URL == "https://api.beatport.com/v4/"

NoParams == [n \in {} |-> 0]
PageParams(page, per_page) == [page |-> page, per_page |-> per_page]

Request(method, url, params) == [method |-> method, url |-> url, params |-> params]

Step(log, res) == [log |-> log, res |-> res]

\* _get with 204 taken for a success, as a client written to accept any 2xx would
_get_accepting_204(srv, log, endpoint, params) ==
    LET url == API_URL \o endpoint
        r == Respond(srv, Len(log) + 1, endpoint, params)
        sent == Append(log, Request("GET", url, params))
    IN  IF r.status = 401
        THEN Step(sent, Raise("ValueError", r.text))
        ELSE IF r.status \notin {200, 201, 202, 204}
             THEN Step(sent, Raise("ConnectionError", r.text))
             ELSE Step(sent, Ret(r.json))

\* def _get(self, endpoint, params=None)
_get(srv, log, endpoint, params) ==
    LET url == API_URL \o endpoint
        r == Respond(srv, Len(log) + 1, endpoint, params)
        sent == Append(log, Request("GET", url, params))
    IN  IF r.status = 401
        THEN Step(sent, Raise("ValueError", r.text))
        ELSE IF r.status \notin {200, 201, 202}
             THEN Step(sent, Raise("ConnectionError", r.text))
             ELSE Step(sent, Ret(r.json))

get_track(srv, log, track_id) == _get(srv, log, "catalog/tracks/" \o track_id, NoParams)

get_release(srv, log, release_id) ==
    _get(srv, log, "catalog/releases/" \o release_id, NoParams)

get_release_tracks(srv, log, release_id, page, per_page) ==
    _get(srv, log, "catalog/releases/" \o release_id \o "/tracks",
         PageParams(page, per_page))

get_playlist(srv, log, playlist_id) ==
    _get(srv, log, "catalog/playlists/" \o playlist_id, NoParams)

get_playlist_tracks(srv, log, playlist_id, page, per_page) ==
    _get(srv, log, "catalog/playlists/" \o playlist_id \o "/tracks",
         PageParams(page, per_page))

get_chart(srv, log, chart_id) == _get(srv, log, "catalog/charts/" \o chart_id, NoParams)

\* re.match(r"genre-(\d+)-hype-(\d+)", chart_id): anchored at the start only
GenreMatch(chart_id) ==
    LET d1 == Len("genre-") + 1
        e1 == DigitsEnd(chart_id, d1)
        d2 == e1 + Len("-hype-")
        e2 == DigitsEnd(chart_id, d2)
    IN  IF /\ LitAt(chart_id, 1, "genre-")
           /\ e1 > d1
           /\ LitAt(chart_id, e1, "-hype-")
           /\ e2 > d2
        THEN Some([genre_id |-> Slice(chart_id, d1, e1),
                   chart_type |-> Slice(chart_id, d2, e2)])
        ELSE Nothing

\* the endpoint without the genre-chart branch
ChartTracksEndpoint_NoGenre(chart_id) == "catalog/charts/" \o chart_id \o "/tracks"

\* the endpoint get_chart_tracks requests
ChartTracksEndpoint(chart_id) ==
    LET genre_match == GenreMatch(chart_id)
    IN  IF genre_match # Nothing
        THEN "catalog/genres/" \o genre_match[1].genre_id \o "/hype/"
                 \o genre_match[1].chart_type \o "/tracks"
        ELSE "catalog/charts/" \o chart_id \o "/tracks"

get_chart_tracks(srv, log, chart_id, page, per_page) ==
    _get(srv, log, ChartTracksEndpoint(chart_id), PageParams(page, per_page))

get_subscription(srv, log) == _get(srv, log, "auth/o/introspect", NoParams)

get_account(srv, log) == _get(srv, log, "auth/o/introspect", NoParams)

get_library_playlist(srv, log, playlist_id) ==
    _get(srv, log, "my/playlists/" \o playlist_id, NoParams)

get_library_playlist_tracks(srv, log, playlist_id, page, per_page) ==
    _get(srv, log, "my/playlists/" \o playlist_id \o "/tracks",
         PageParams(page, per_page))


\* Python's d.get(key, default) on a JSON object
Get(d, key, default) == IF key \in DOMAIN d THEN d[key] ELSE default

\* quality_map of get_track_download: the vendor's quality parameter
quality_map ==
    [low |-> "128k.aac", medium |-> "128k.aac", high |-> "256k.aac", flac |-> "lossless"]

\* QUALITY_MAPPING of get_track_download
QUALITY_MAPPING ==
    [low |-> [display |-> "AAC 128kbps", extension |-> "m4a"],
     medium |-> [display |-> "AAC 128kbps", extension |-> "m4a"],
     high |-> [display |-> "AAC 256kbps", extension |-> "m4a"],
     flac |-> [display |-> "FLAC", extension |-> "flac"]]

\* def get_track_download(self, track_id, quality='high') of the client
api_get_track_download(srv, log, track_id, quality) ==
    IF quality \notin DOMAIN quality_map
    THEN Step(log, Raise("KeyError", "'" \o quality \o "'"))
    ELSE
    LET endpoint == "catalog/tracks/" \o track_id \o "/download/"
        params == [quality |-> quality_map[quality]]
        response == Respond(srv, Len(log) + 1, endpoint, params)
        sent == Append(log, Request("GET", API_URL \o endpoint, params))
    IN  IF response.status # 200
        THEN Step(sent, Raise("Exception",
                 IF response.status = 404
                 THEN "Track " \o track_id \o " not available for download"
                 ELSE "Failed to get download URL: " \o response.text))
        ELSE Step(sent, Ret(("download_url" :> Get(response.json, "location", None))
                            @@ ("quality_info" :> QUALITY_MAPPING[quality])
                            @@ response.json))

\* location.split('code=')[1].split('&')[0]
CodeOf(location) ==
    LET start == Min({i \in 1..Len(location) : LitAt(location, i, "code=")}) + Len("code=")
        stops == {j \in start..Len(location) : Ch(location, j) = "&"}
        stop == IF stops = {} THEN Len(location) + 1 ELSE Min(stops)
    IN  Slice(location, start, stop)

NoSession == [access_token |-> None, refresh_token |-> None, expires |-> Nothing]

\* the session a token document sets: the two tokens and now + expires_in
TokenSession(data, now) ==
    [access_token |-> data.access_token,
     refresh_token |-> data.refresh_token,
     expires |-> Some(now + data.expires_in)]

AuthStep(log, res, sess) == [log |-> log, res |-> res, session |-> sess]

\* def auth(self, username, password): login, authorization code, token exchange
auth(srv, log, sess, username, password) ==
    LET login_data == [username |-> username, password |-> password]
        r1 == Respond(srv, Len(log) + 1, "auth/login/", login_data)
        log1 == Append(log, Request("POST", API_URL \o "auth/login/", login_data))
    IN  IF r1.status # 200
        THEN AuthStep(log1, Raise("Exception", "Login failed - Invalid credentials"), sess)
        ELSE IF r1.cookies = Nothing
        THEN AuthStep(log1, Raise("KeyError", "'sessionid'"), sess)
        ELSE
    LET auth_params == [client_id |-> "ryZ8LuyQVPqbK2mBX2Hwt4qSMtnWuTYSqBPO92yQ",
                        response_type |-> "code"]
        r2 == Respond(srv, Len(log1) + 1, "auth/o/authorize/", auth_params)
        log2 == Append(log1, Request("GET", API_URL \o "auth/o/authorize/", auth_params))
    IN  IF r2.status # 302
        THEN AuthStep(log2, Raise("Exception", "Authorization failed"), sess)
        ELSE IF ~Contains(r2.location, "code=")
        THEN AuthStep(log2, Raise("Exception", "No authorization code found"), sess)
        ELSE
    LET token_data == [client_id |-> "ryZ8LuyQVPqbK2mBX2Hwt4qSMtnWuTYSqBPO92yQ",
                       grant_type |-> "authorization_code",
                       code |-> CodeOf(r2.location)]
        r3 == Respond(srv, Len(log2) + 1, "auth/o/token/", token_data)
        log3 == Append(log2, Request("POST", API_URL \o "auth/o/token/", token_data))
    IN  IF r3.status # 200
        THEN AuthStep(log3, Raise("Exception", "Token exchange failed"), sess)
        ELSE AuthStep(log3, Ret(r3.json), TokenSession(r3.json, srv.now))

\* refresh, replacing the access token alone when the vendor grants new tokens
refresh_access_token_only(srv, log, sess) ==
    LET data == [client_id |-> "ryZ8LuyQVPqbK2mBX2Hwt4qSMtnWuTYSqBPO92yQ",
                 refresh_token |-> sess.refresh_token,
                 grant_type |-> "refresh_token"]
        r == Respond(srv, Len(log) + 1, "auth/o/token/", data)
        sent == Append(log, Request("POST", API_URL \o "auth/o/token/", data))
    IN  IF r.json = Nothing THEN AuthStep(sent, Raise("JSONDecodeError", r.text), sess)
        ELSE IF r.status # 200 THEN AuthStep(sent, Ret(r.json), sess)
        ELSE AuthStep(sent, Ret(r.json), [sess EXCEPT !.access_token = r.json.access_token])

\* def refresh(self): post the refresh token; an answer other than 200 is
\* returned as it is, and both paths read the body with r.json()
refresh(srv, log, sess) ==
    LET data == [client_id |-> "ryZ8LuyQVPqbK2mBX2Hwt4qSMtnWuTYSqBPO92yQ",
                 refresh_token |-> sess.refresh_token,
                 grant_type |-> "refresh_token"]
        r == Respond(srv, Len(log) + 1, "auth/o/token/", data)
        sent == Append(log, Request("POST", API_URL \o "auth/o/token/", data))
    IN  IF r.json = Nothing THEN AuthStep(sent, Raise("JSONDecodeError", r.text), sess)
        ELSE IF r.status # 200 THEN AuthStep(sent, Ret(r.json), sess)
        ELSE AuthStep(sent, Ret(r.json), TokenSession(r.json, srv.now))

\* def set_session(self, session)
set_session(s) ==
    [access_token |-> Get(s, "access_token", None),
     refresh_token |-> Get(s, "refresh_token", None),
     expires |-> Get(s, "expires", Nothing)]

\* def get_session(self)
get_session(sess) ==
    [access_token |-> sess.access_token,
     refresh_token |-> sess.refresh_token,
     expires |-> sess.expires]

(***************************************************************************)
(* interface.py: class ModuleInterface.                                    *)
(***************************************************************************)
\* the host's QualityEnum
QualityEnum == {"MINIMUM", "LOW", "MEDIUM", "HIGH", "LOSSLESS", "HIFI"}

\* self.quality_parse with MEDIUM sent to the 256k tier
quality_parse_medium_high ==
    [t \in QualityEnum |->
        CASE t = "MINIMUM" -> "low" [] t = "LOW" -> "low" [] t = "MEDIUM" -> "high"
          [] t = "HIGH" -> "high" [] t = "LOSSLESS" -> "flac" [] t = "HIFI" -> "flac"]

\* self.quality_parse of __init__
quality_parse ==
    [t \in QualityEnum |->
        CASE t = "MINIMUM" -> "low" [] t = "LOW" -> "low" [] t = "MEDIUM" -> "medium"
          [] t = "HIGH" -> "high" [] t = "LOSSLESS" -> "flac" [] t = "HIFI" -> "flac"]

\* the bitrate table of get_track_info
bitrate == [low |-> 128, medium |-> 128, high |-> 256, flac |-> 1411]

\* Python's truth value of a string or None
Truthy(x) == x # None /\ x # ""

required_features ==
    <<"feature:fulltrackplayback", "feature:cdnfulfillment", "feature:cdnfulfillment-link">>

\* ", ".join(list)
RECURSIVE Join(_)
Join(list) ==
    IF list = <<>> THEN ""
    ELSE IF Len(list) = 1 THEN list[1]
    ELSE list[1] \o ", " \o Join(Tail(list))

\* [f for f in list if f not in features]
RECURSIVE Missing(_, _)
Missing(list, features) ==
    IF list = <<>> THEN <<>>
    ELSE (IF InList(list[1], features) THEN <<>> ELSE <<list[1]>>)
         \o Missing(Tail(list), features)

\* the checks of login on the introspection response, without the features check
subscription_error_no_features(subscription) ==
    LET scopes == Split(Get(subscription, "scope", ""))
        sub_type == Get(subscription, "subscription", None)
    IN  IF ~InList("user:dj", scopes)
        THEN Some("Account does not have DJ/streaming permissions")
        ELSE IF ~Truthy(sub_type)
        THEN Some("No active subscription found")
        ELSE IF sub_type \notin {"bp_link", "bp_link_pro"}
        THEN Some("Account does not have a LINK or LINK PRO subscription")
        ELSE Nothing

\* the checks of login on the introspection response: the message of the first
\* check that fails
subscription_error(subscription) ==
    LET scopes == Split(Get(subscription, "scope", ""))
        sub_type == Get(subscription, "subscription", None)
        missing_features == Missing(required_features, Get(subscription, "feature", <<>>))
    IN  IF ~InList("user:dj", scopes)
        THEN Some("Account does not have DJ/streaming permissions")
        ELSE IF ~Truthy(sub_type)
        THEN Some("No active subscription found")
        ELSE IF sub_type \notin {"bp_link", "bp_link_pro"}
        THEN Some("Account does not have a LINK or LINK PRO subscription")
        ELSE IF missing_features # <<>>
        THEN Some("Account missing required features: " \o Join(missing_features))
        ELSE Nothing

\* def login(self, email, password)
login(srv, log, sess, email, password) ==
    LET a == auth(srv, log, sess, email, password)
    IN  IF Raised(a.res) THEN a
        ELSE IF Truthy(Get(a.res.value, "error_description", None))
        THEN AuthStep(a.log, Raise("module_error", a.res.value.error_description), a.session)
        ELSE
    LET s == get_subscription(srv, a.log)
    IN  IF Raised(s.res) THEN AuthStep(s.log, s.res, a.session)
        ELSE
    LET err == subscription_error(s.res.value)
    IN  IF err # Nothing
        THEN AuthStep(s.log, Raise("module_error", err[1]), a.session)
        ELSE AuthStep(s.log, Ret(None), a.session)

\* def __init__(self, module_controller): the login is skipped when the host's
\* disable_subscription_check option is set
__init__(srv, disable_subscription_check, username, password) ==
    IF ~disable_subscription_check
    THEN login(srv, <<>>, NoSession, username, password)
    ELSE AuthStep(<<>>, Ret(None), NoSession)


\* a regex `.`: any character but a line break
AnyChar(s, i) == Ch(s, i) # "" /\ Ch(s, i) # "\n"

\* (www.)? at b: the positions the rest may start at, the greedy one first
WwwEnds(s, b) ==
    (IF LitAt(s, b, "www") /\ AnyChar(s, b + 3) THEN <<b + 4>> ELSE <<>>) \o <<b>>

\* https?://(www.)?beatport.com/ at i: the positions after it, one for each way
\* through the optional parts, in the order the matcher tries them
HostEnds(s, i) ==
    LET Host(k) ==
            IF LitAt(s, k, "beatport") /\ AnyChar(s, k + 8) /\ LitAt(s, k + 9, "com/")
            THEN <<k + 13>> ELSE <<>>
        Www(b) == LET e == WwwEnds(s, b)
                  IN  Host(e[1]) \o (IF Len(e) > 1 THEN Host(e[2]) ELSE <<>>)
        Colon(a) == IF LitAt(s, a, "://") THEN Www(a + 3) ELSE <<>>
    IN  IF ~LitAt(s, i, "http") THEN <<>>
        ELSE (IF Ch(s, i + 4) = "s" THEN Colon(i + 5) ELSE <<>>) \o Colon(i + 4)

\* library/playlists/(\d+) at k
LibraryRest(s, k) ==
    LET d == k + Len("library/playlists/")
    IN  IF LitAt(s, k, "library/playlists/") /\ DigitsEnd(s, d) > d
        THEN Some(Slice(s, d, DigitsEnd(s, d)))
        ELSE Nothing

\* re.search(r"https?://(www.)?beatport.com/library/playlists/(\d+)", link): group 2
library_match(link) ==
    LET At(i) == LET k == HostEnds(link, i)
                 IN  First([n \in 1..Len(k) |-> LibraryRest(link, k[n])])
    IN  First([i \in 1..Len(link) |-> At(i)])

\* the position after the longest run of characters other than "/" that starts at i
RECURSIVE NonSlashEnd(_, _)
NonSlashEnd(s, i) ==
    IF Ch(s, i) # "" /\ Ch(s, i) # "/" THEN NonSlashEnd(s, i + 1) ELSE i

\* /genre/[^/]+/(\d+)/hype-(\d+) at i
GenreChartAt(s, i) ==
    LET p == i + Len("/genre/")
        e == NonSlashEnd(s, p)
        d1 == e + 1
        e1 == DigitsEnd(s, d1)
        d2 == e1 + Len("/hype-")
        e2 == DigitsEnd(s, d2)
    IN  IF /\ LitAt(s, i, "/genre/")
           /\ e > p
           /\ Ch(s, e) = "/"
           /\ e1 > d1
           /\ LitAt(s, e1, "/hype-")
           /\ e2 > d2
        THEN Some([genre_id |-> Slice(s, d1, e1), chart_type |-> Slice(s, d2, e2)])
        ELSE Nothing

\* re.search(r"/genre/[^/]+/(\d+)/hype-(\d+)", link)
genre_chart_match(link) ==
    First([i \in 1..Len(link) |-> GenreChartAt(link, i)])

\* the alternatives of (?P<type>...), in the order the pattern lists them
UrlTypes == <<"track", "release", "artist", "playlists", "chart">>

\* .+?/(?P<id>\d+) at p: the shortest run of one or more characters that is
\* followed by "/" and a digit; the id is the longest run of digits there
SlugAndId(s, p) ==
    LET ns == {n \in 1..Len(s) :
                  /\ \A j \in p..(p + n - 1) : AnyChar(s, j)
                  /\ Ch(s, p + n) = "/"
                  /\ Ch(s, p + n + 1) \in Digits}
    IN  IF ns = {} THEN Nothing
        ELSE LET d == p + Min(ns) + 1 IN Some(Slice(s, d, DigitsEnd(s, d)))

\* (?P<type>track|release|artist|playlists|chart)/.+?/(?P<id>\d+) at m
TypeSlugId(s, m) ==
    First([t \in 1..Len(UrlTypes) |->
        IF LitAt(s, m, UrlTypes[t] \o "/")
           /\ SlugAndId(s, m + Len(UrlTypes[t]) + 1) # Nothing
        THEN Some([type |-> UrlTypes[t], id |-> SlugAndId(s, m + Len(UrlTypes[t]) + 1)[1]])
        ELSE Nothing])

\* (?:[a-z]{2}/)? then the type, slug and id
LangTypeSlugId(s, k) ==
    First(<<IF Ch(s, k) \in Lower /\ Ch(s, k + 1) \in Lower /\ Ch(s, k + 2) = "/"
            THEN TypeSlugId(s, k + 3) ELSE Nothing,
            TypeSlugId(s, k)>>)

\* the regular-URL pattern of custom_url_parse, with the slug made optional
url_match_optional_slug(link) ==
    LET Bare(m) ==
            First([t \in 1..Len(UrlTypes) |->
                LET d == m + Len(UrlTypes[t]) + 1
                IN  IF LitAt(link, m, UrlTypes[t] \o "/") /\ DigitsEnd(link, d) > d
                       /\ SlugAndId(link, d) = Nothing
                    THEN Some([type |-> UrlTypes[t], id |-> Slice(link, d, DigitsEnd(link, d))])
                    ELSE Nothing])
        At(i) == LET k == HostEnds(link, i)
                 IN  First([n \in 1..Len(k) |->
                                First(<<LangTypeSlugId(link, k[n]), Bare(k[n])>>)])
    IN  First([i \in 1..Len(link) |-> At(i)])

\* re.search(r"https?://(www.)?beatport.com/(?:[a-z]{2}/)?"
\*           r"(?P<type>track|release|artist|playlists|chart)/.+?/(?P<id>\d+)", link)
url_match(link) ==
    LET At(i) == LET k == HostEnds(link, i)
                 IN  First([n \in 1..Len(k) |-> LangTypeSlugId(link, k[n])])
    IN  First([i \in 1..Len(link) |-> At(i)])

\* the media_types table of custom_url_parse
media_types ==
    [track |-> "track", release |-> "album", artist |-> "artist",
     playlists |-> "playlist", chart |-> "playlist"]

MediaIdentification(media_type, media_id, extra_kwargs) ==
    [media_type |-> media_type, media_id |-> media_id, extra_kwargs |-> extra_kwargs]

\* def custom_url_parse(link)
custom_url_parse(link) ==
    LET library == library_match(link)
        genre == genre_chart_match(link)
        match == url_match(link)
    IN  IF library # Nothing
        THEN Ret(MediaIdentification("playlist", library[1], [is_library |-> TRUE]))
        ELSE IF genre # Nothing
        THEN Ret(MediaIdentification("playlist",
                     "genre-" \o genre[1].genre_id \o "-hype-" \o genre[1].chart_type,
                     [is_chart |-> TRUE]))
        ELSE IF match = Nothing
        THEN Raise("ValueError", "Invalid URL format")
        ELSE Ret(MediaIdentification(media_types[match[1].type], match[1].id,
                     [is_chart |-> match[1].type = "chart"]))

\* \d{3,4}x\d{3,4} at i: the position after the match, or 0
ResolutionEnd(s, i) ==
    LET Width(a) ==
            LET h == i + a + 1
            IN  IF /\ DigitsEndUpTo(s, i, a) = i + a
                   /\ Ch(s, i + a) = "x"
                   /\ DigitsEndUpTo(s, h, 4) >= h + 3
                THEN Some(DigitsEndUpTo(s, h, 4)) ELSE Nothing
        m == First(<<Width(4), Width(3)>>)
    IN  IF m = Nothing THEN 0 ELSE m[1]

\* re.sub(res_pattern, '{w}x{h}', cover_url), from position i on: every match,
\* leftmost first and without overlap, gives way to the template
RECURSIVE SubResolution(_, _)
SubResolution(s, i) ==
    LET found == {j \in i..Len(s) : ResolutionEnd(s, j) > 0}
    IN  IF found = {} THEN Slice(s, i, Len(s) + 1)
        ELSE Slice(s, i, Min(found)) \o "{w}x{h}"
                 \o SubResolution(s, ResolutionEnd(s, Min(found)))

\* cover_url.format(w=size, h=size), from position i on; Nothing where format
\* raises: text up to the next brace is copied, {w} and {h} give the size, {{ and
\* }} a brace, and any other brace is an error
RECURSIVE FormatFrom(_, _, _)
FormatFrom(s, i, size) ==
    LET braces == {j \in i..Len(s) : Ch(s, j) \in {"{", "}"}}
        b == Min(braces)
        Then(text, j) ==
            LET rest == FormatFrom(s, j, size)
            IN  IF rest = Nothing THEN Nothing
                ELSE Some(Slice(s, i, b) \o text \o rest[1])
    IN  IF braces = {} THEN Some(Slice(s, i, Len(s) + 1))
        ELSE IF LitAt(s, b, "{w}") \/ LitAt(s, b, "{h}") THEN Then(Str(size), b + 3)
        ELSE IF LitAt(s, b, "{{") THEN Then("{", b + 2)
        ELSE IF LitAt(s, b, "}}") THEN Then("}", b + 2)
        ELSE Nothing

\* the default of max_size
max_size == 1400

\* _generate_artwork_url without the cap
generate_artwork_url_uncapped(cover_url, size) ==
    LET url == SubResolution(cover_url, 1)
        out == FormatFrom(url, 1, size)
    IN  IF out = Nothing THEN Raise("KeyError", url) ELSE Ret(out[1])

\* def _generate_artwork_url(cover_url, size, max_size=1400)
_generate_artwork_url(cover_url, size) ==
    LET capped == IF size > max_size THEN max_size ELSE size
        url == SubResolution(cover_url, 1)
        out == FormatFrom(url, 1, capped)
    IN  IF out = Nothing THEN Raise("KeyError", url) ELSE Ret(out[1])

(***************************************************************************)
(* Dictionaries keyed by ids.  A key is an int (the ids of the vendor's    *)
(* JSON) or a str (the ids parsed from a URL); the two never compare equal.*)
(***************************************************************************)
IntKey(n) == <<"int", n>>
StrKey(s) == <<"str", s>>
\* f'{key}'
KeyStr(k) == IF k[1] = "int" THEN Str(k[2]) ELSE k[2]

EmptyDict == [k \in {} |-> Nothing]

\* the dict after `for track in tracks[lo..hi]: d[track.get('id')] = track`: each
\* id holds the record written last under it
RECURSIVE DictOfRange(_, _, _)
DictOfRange(tracks, lo, hi) ==
    IF lo > hi THEN EmptyDict
    ELSE IF lo = hi THEN (IntKey(tracks[lo].id) :> tracks[lo])
    ELSE LET mid == (lo + hi) \div 2
         IN  DictOfRange(tracks, mid + 1, hi) @@ DictOfRange(tracks, lo, mid)

DictOfTracks(tracks) == DictOfRange(tracks, 1, Len(tracks))

\* date[:4] if date else None
YearOf(date) == IF Truthy(date) THEN Slice(date, 1, Min({5, Len(date) + 1})) ELSE None

\* sum([t.get('length_ms', 0) // 1000 for t in tracks[lo..hi]])
RECURSIVE DurationOf(_, _, _)
DurationOf(tracks, lo, hi) ==
    IF lo > hi THEN 0
    ELSE IF lo = hi THEN Get(tracks[lo], "length_ms", 0) \div 1000
    ELSE LET mid == (lo + hi) \div 2
         IN  DurationOf(tracks, lo, mid) + DurationOf(tracks, mid + 1, hi)

\* the default of per_page in the client's paged calls
per_page_default == 100
\* the page size in the page loops of get_playlist_info and get_album_info
page_size == 100

\* [t.get('track') for t in results]
Unfold(results) == [i \in DOMAIN results |-> results[i].track]

\* the first request for the tracks of a playlist, chart or library playlist
first_playlist_tracks(srv, log, playlist_id, is_chart, is_library) ==
    IF is_chart THEN get_chart_tracks(srv, log, playlist_id, 1, per_page_default)
    ELSE IF is_library
    THEN get_library_playlist_tracks(srv, log, playlist_id, 1, per_page_default)
    ELSE get_playlist_tracks(srv, log, playlist_id, 1, per_page_default)

\* one pass of the page loop of get_playlist_info
playlist_page(srv, log, playlist_id, is_chart, page) ==
    IF is_chart THEN get_chart_tracks(srv, log, playlist_id, page, per_page_default)
    ELSE get_playlist_tracks(srv, log, playlist_id, page, per_page_default)

\* for page in range(page, stop): playlist_tracks += ...
\* the page loop, going on to the next page when the fetch of a page fails
RECURSIVE playlist_pages_skipping_failures(_, _, _, _, _, _, _)
playlist_pages_skipping_failures(srv, log, playlist_id, is_chart, playlist_tracks, page, stop) ==
    IF page >= stop THEN Step(log, Ret(playlist_tracks))
    ELSE LET c == playlist_page(srv, log, playlist_id, is_chart, page)
         IN  playlist_pages_skipping_failures(srv, c.log, playlist_id, is_chart,
                 playlist_tracks \o (IF Raised(c.res) THEN <<>>
                                     ELSE IF is_chart THEN c.res.value.results
                                     ELSE Unfold(c.res.value.results)),
                 page + 1, stop)

RECURSIVE playlist_pages(_, _, _, _, _, _, _)
playlist_pages(srv, log, playlist_id, is_chart, playlist_tracks, page, stop) ==
    IF page >= stop THEN Step(log, Ret(playlist_tracks))
    ELSE LET c == playlist_page(srv, log, playlist_id, is_chart, page)
         IN  IF Raised(c.res) THEN c
             ELSE playlist_pages(srv, c.log, playlist_id, is_chart,
                      playlist_tracks \o (IF is_chart THEN c.res.value.results
                                          ELSE Unfold(c.res.value.results)),
                      page + 1, stop)

\* the end of range(2, (total_tracks - 1) // 100 + 2)
page_stop(total_tracks) == (total_tracks - 1) \div page_size + 2

\* track['track_number'] = i + 1; track['total_tracks'] = total_tracks
annotate_playlist(playlist_tracks, total_tracks) ==
    [i \in DOMAIN playlist_tracks |->
        ("track_number" :> i) @@ ("total_tracks" :> total_tracks) @@ playlist_tracks[i]]

\* track['number'] = i + 1
annotate_album(tracks) ==
    [i \in DOMAIN tracks |-> ("number" :> i) @@ tracks[i]]

\* def get_playlist_info(self, playlist_id, is_chart=False, is_library=False)
get_playlist_info(srv, cover_size, playlist_id, is_chart, is_library) ==
    LET c1 == IF is_chart THEN get_chart(srv, <<>>, playlist_id)
              ELSE IF is_library THEN get_library_playlist(srv, <<>>, playlist_id)
              ELSE get_playlist(srv, <<>>, playlist_id)
    IN  IF Raised(c1.res) THEN c1 ELSE
    LET c2 == first_playlist_tracks(srv, c1.log, playlist_id, is_chart, is_library)
    IN  IF Raised(c2.res) THEN c2 ELSE
    LET playlist_data == c1.res.value
        first == IF is_chart THEN c2.res.value.results ELSE Unfold(c2.res.value.results)
        total_tracks == c2.res.value.count
        c3 == playlist_pages(srv, c2.log, playlist_id, is_chart, first, 2,
                             page_stop(total_tracks))
    IN  IF Raised(c3.res) THEN c3 ELSE
    LET playlist_tracks == annotate_playlist(c3.res.value, total_tracks)
        cover_url == IF is_chart THEN playlist_data.image.dynamic_uri
                     ELSE playlist_data.release_images[1]
        cover == _generate_artwork_url(cover_url, cover_size)
    IN  IF Raised(cover) THEN Step(c3.log, cover) ELSE
        Step(c3.log, Ret(
            [name |-> Get(playlist_data, "name", None),
             creator |-> IF is_chart
                         THEN (IF Get(playlist_data, "person", Nothing) # Nothing
                               THEN playlist_data.person.owner_name ELSE "Beatport")
                         ELSE "User",
             release_year |-> IF is_chart THEN YearOf(Get(playlist_data, "change_date", None))
                              ELSE YearOf(Get(playlist_data, "updated_date", None)),
             duration |-> DurationOf(playlist_tracks, 1, Len(playlist_tracks)),
             tracks |-> [i \in DOMAIN playlist_tracks |-> playlist_tracks[i].id],
             cover_url |-> cover.value,
             track_extra_kwargs |-> [data |-> DictOfTracks(playlist_tracks)]]))

\* for page in range(page, stop): tracks.extend(...)
RECURSIVE album_pages(_, _, _, _, _, _)
album_pages(srv, log, album_id, tracks, page, stop) ==
    IF page >= stop THEN Step(log, Ret(tracks))
    ELSE LET c == get_release_tracks(srv, log, album_id, page, per_page_default)
         IN  IF Raised(c.res) THEN c
             ELSE album_pages(srv, c.log, album_id,
                      tracks \o Get(c.res.value, "results", <<>>), page + 1, stop)

\* def get_album_info(self, album_id, data=None, is_chart=False)
get_album_info(srv, cover_size, album_id, data) ==
    LET c1 == IF StrKey(album_id) \in DOMAIN data
              THEN Step(<<>>, Ret(data[StrKey(album_id)]))
              ELSE get_release(srv, <<>>, album_id)
    IN  IF Raised(c1.res) THEN c1 ELSE
    LET c2 == get_release_tracks(srv, c1.log, album_id, 1, per_page_default)
    IN  IF Raised(c2.res) THEN c2 ELSE
    LET album_data == c1.res.value
        total_tracks == Get(c2.res.value, "count", 0)
        c3 == album_pages(srv, c2.log, album_id, Get(c2.res.value, "results", <<>>), 2,
                          page_stop(total_tracks))
    IN  IF Raised(c3.res) THEN c3 ELSE
    LET tracks == annotate_album(c3.res.value)
        cover == _generate_artwork_url(album_data.image.dynamic_uri, cover_size)
    IN  IF Raised(cover) THEN Step(c3.log, cover) ELSE
        Step(c3.log, Ret(
            [name |-> Get(album_data, "name", None),
             release_year |-> YearOf(Get(album_data, "publish_date", None)),
             duration |-> DurationOf(tracks, 1, Len(tracks)),
             upc |-> Get(album_data, "upc", None),
             cover_url |-> cover.value,
             artist |-> album_data.artists[1].name,
             artist_id |-> album_data.artists[1].id,
             tracks |-> [i \in DOMAIN tracks |-> tracks[i].id],
             track_extra_kwargs |->
                 [data |-> DictOfTracks(tracks) @@ (StrKey(album_id) :> album_data)]]))


\* the error get_track_info reports: the value `error` holds after the checks of
\* is_available_for_streaming and preorder, which overwrite the region lock's
track_error(region_error, track_data) ==
    IF ~track_data.is_available_for_streaming
    THEN "Track \"" \o track_data.name \o "\" is not streamable!"
    ELSE IF Get(track_data, "preorder", FALSE)
    THEN "Track \"" \o track_data.name \o "\" is not yet released!"
    ELSE region_error

\* CodecEnum.AAC if quality_tier not in {HIFI, LOSSLESS} else CodecEnum.FLAC
track_codec(quality_tier) ==
    IF quality_tier \notin {"HIFI", "LOSSLESS"} THEN "AAC" ELSE "FLAC"

\* def get_track_info(self, track_id, quality_tier, codec_options, slug=None,
\*                    data=None, is_chart=False); the copyright sign of the
\* copyright tag is written (c), and sample_rate, a constant, is left out
get_track_info(srv, cover_size, track_id, quality_tier, data) ==
    LET c1 == IF track_id \in DOMAIN data THEN Step(<<>>, Ret(data[track_id]))
              ELSE get_track(srv, <<>>, KeyStr(track_id))
    IN  IF Raised(c1.res) THEN c1 ELSE
    LET track_data == c1.res.value
        album_id == track_data.release.id
        c2 == IF IntKey(album_id) \in DOMAIN data
              THEN Step(c1.log, Ret(data[IntKey(album_id)]))
              ELSE get_release(srv, c1.log, Str(album_id))
    IN  IF Raised(c2.res) /\ c2.res.exc # "ConnectionError" THEN c2 ELSE
    LET album_data == IF Raised(c2.res) THEN EmptyDict ELSE c2.res.value
        region_error == IF Raised(c2.res) /\ Contains(c2.res.detail, "Territory Restricted.")
                        THEN "Album " \o Str(album_id) \o " is region locked"
                        ELSE None
        track_name == track_data.name
                      \o (IF Truthy(Get(track_data, "mix_name", None))
                          THEN " (" \o track_data.mix_name \o ")" ELSE "")
        release_year == YearOf(Get(track_data, "publish_date", None))
        genres == <<track_data.genre.name>>
                  \o (IF Get(track_data, "sub_genre", Nothing) # Nothing
                      THEN <<track_data.sub_genre.name>> ELSE <<>>)
        extra_tags == (IF Get(track_data, "bpm", 0) # 0
                       THEN [BPM |-> track_data.bpm] ELSE EmptyDict)
                      @@ (IF Get(track_data, "key", Nothing) # Nothing
                          THEN [Key |-> track_data.key.name] ELSE EmptyDict)
        quality == quality_parse[quality_tier]
        length_ms == Get(track_data, "length_ms", 0)
        cover == _generate_artwork_url(track_data.release.image.dynamic_uri, cover_size)
    IN  IF Raised(cover) THEN Step(c2.log, cover) ELSE
        Step(c2.log, Ret(
            [name |-> track_name,
             album |-> Get(album_data, "name", None),
             album_id |-> IF "id" \in DOMAIN album_data THEN Some(album_data.id) ELSE Nothing,
             artists |-> [i \in DOMAIN track_data.artists |-> track_data.artists[i].name],
             artist_id |-> track_data.artists[1].id,
             release_year |-> release_year,
             duration |-> IF length_ms # 0 THEN Some(length_ms \div 1000) ELSE Nothing,
             bitrate |-> bitrate[quality],
             bit_depth |-> IF quality = "flac" THEN Some(16) ELSE Nothing,
             cover_url |-> cover.value,
             tags |-> [album_artist |-> Get(Get(album_data, "artists", <<EmptyDict>>)[1],
                                            "name", None),
                       track_number |-> IF "number" \in DOMAIN track_data
                                        THEN Some(track_data.number) ELSE Nothing,
                       total_tracks |-> IF "track_count" \in DOMAIN album_data
                                        THEN Some(album_data.track_count) ELSE Nothing,
                       upc |-> Get(album_data, "upc", None),
                       isrc |-> Get(track_data, "isrc", None),
                       genres |-> genres,
                       release_date |-> Get(track_data, "publish_date", None),
                       copyright |-> "(c) " \o release_year \o " "
                                         \o track_data.release.label.name,
                       label |-> track_data.release.label.name,
                       extra_tags |-> extra_tags],
             codec |-> track_codec(quality_tier),
             download_extra_kwargs |-> [track_id |-> track_id, quality_tier |-> quality_tier],
             error |-> track_error(region_error, track_data)]))

\* def get_track_cover(self, track_id, cover_options, data=None); the file type,
\* a constant, is left out
get_track_cover(srv, track_id, resolution, data) ==
    LET c1 == IF track_id \in DOMAIN data THEN Step(<<>>, Ret(data[track_id]))
              ELSE get_track(srv, <<>>, KeyStr(track_id))
    IN  IF Raised(c1.res) THEN c1 ELSE
    LET track_data == c1.res.value
        cover == _generate_artwork_url(track_data.release.image.dynamic_uri, resolution)
    IN  IF Raised(cover) THEN Step(c1.log, cover)
        ELSE Step(c1.log, Ret([url |-> cover.value]))

\* how the except clause of get_track_download leaves, wrapping every exception
download_failure_always_wrapped(e) == Raise("module_error", "Download failed: " \o e.detail)

\* except Exception as e: re-raise e if it is the adapter's error, else wrap it
download_failure(e) ==
    IF e.exc = "module_error" THEN e
    ELSE Raise("module_error", "Download failed: " \o e.detail)

\* def get_track_download(self, track_id, quality_tier) of the adapter
get_track_download(srv, track_id, quality_tier) ==
    IF quality_tier \notin DOMAIN quality_parse
    THEN Step(<<>>, download_failure(Raise("KeyError", "'" \o quality_tier \o "'")))
    ELSE
    LET quality == quality_parse[quality_tier]
        c == api_get_track_download(srv, <<>>, KeyStr(track_id), quality)
    IN  IF Raised(c.res) THEN Step(c.log, download_failure(c.res))
        ELSE IF ~Truthy(c.res.value.download_url)
        THEN Step(c.log, download_failure(Raise("module_error", "Could not get download URL")))
        ELSE Step(c.log, Ret([download_type |-> "URL",
                              file_url |-> c.res.value.download_url,
                              different_codec |-> IF quality # "flac" THEN "AAC" ELSE "FLAC"]))


(***************************************************************************)
(* The vendor's documents and the servers the host's calls run against.    *)
(***************************************************************************)
DynamicUri == "https://geo-media.beatport.com/image_size/{w}x{h}/ab2d1d04.jpg"
StaticUri == "https://geo-media.beatport.com/image_size/500x500/ab2d1d04.jpg"

TrackDoc(id, release_id) ==
    [id |-> id, name |-> "Darkside", mix_name |-> "Original Mix",
     release |-> [id |-> release_id, image |-> [dynamic_uri |-> DynamicUri],
                  label |-> [name |-> "Drumcode"]],
     publish_date |-> "2018-08-24", genre |-> [name |-> "Techno"], bpm |-> 128,
     key |-> [name |-> "A Minor"], isrc |-> "GBKQU1812345",
     length_ms |-> 215500, number |-> 4,
     is_available_for_streaming |-> TRUE,
     artists |-> <<[id |-> 31, name |-> "Oliver"]>>]

ReleaseDoc(id) ==
    [id |-> id, name |-> "Darkside EP", upc |-> "0800", publish_date |-> "2018-08-24",
     track_count |-> 2, image |-> [dynamic_uri |-> DynamicUri],
     artists |-> <<[id |-> 32, name |-> "Various"]>>]

ChartDoc == [name |-> "Top 10", person |-> [owner_name |-> "DJ X"],
             change_date |-> "2024-01-31", image |-> [dynamic_uri |-> DynamicUri]]

PlaylistDoc == [name |-> "My list", updated_date |-> "2023-05-01",
                release_images |-> <<StaticUri>>]

Doc(doc) == [kind |-> "doc", doc |-> doc]
List(items) == [kind |-> "list", items |-> items]
Raw(response) == [kind |-> "raw", response |-> response]

NoResources == [e \in {} |-> Nothing]

Server(res, force_at, forced) ==
    [res |-> res, force_at |-> force_at, forced |-> forced, now |-> 1000]

\* the total counts the list resources take: around every page boundary
Counts == {n \in 0..(MaxPages * per_page_default) :
              n % per_page_default \in {0, 1, per_page_default \div 2, per_page_default - 1}}

\* n tracks with the ids base+1 .. base+n, in the server's order; with dup, the
\* last one is the first one again (a playlist may hold a track twice)
Tracks(n, base, dup) ==
    [i \in 1..n |-> TrackDoc(IF dup /\ i = n THEN base + 1 ELSE base + i, 50)]

\* the entries of a playlist's track list: each wraps its track
Wrapped(tracks) == [i \in DOMAIN tracks |-> [track |-> tracks[i]]]

ErrorBodies == {"Territory Restricted.", "{\"detail\": \"Internal error\"}"}

Failure(status) == Response(status, "{\"detail\": \"Internal error\"}", Nothing)

\* the server behind a get_playlist_info call described by sc
PlaylistServer(sc) ==
    LET tracks == Tracks(sc.n, 1000, sc.dup)
        res == CASE sc.kind = "chart" ->
                      ("catalog/charts/" \o sc.id :> Doc(ChartDoc))
                      @@ ("catalog/charts/" \o sc.id \o "/tracks" :> List(tracks))
                 [] sc.kind = "genre_chart" ->
                      ("catalog/genres/" \o sc.g \o "/hype/" \o sc.t \o "/tracks" :> List(tracks))
                      @@ (IF sc.twin = "present"
                          THEN ("catalog/charts/" \o sc.id :> Doc(ChartDoc))
                          ELSE NoResources)
                 [] sc.kind = "playlist" ->
                      ("catalog/playlists/" \o sc.id :> Doc(PlaylistDoc))
                      @@ ("catalog/playlists/" \o sc.id \o "/tracks" :> List(Wrapped(tracks)))
                 [] sc.kind = "library" ->
                      ("my/playlists/" \o sc.id :> Doc(PlaylistDoc))
                      @@ ("my/playlists/" \o sc.id \o "/tracks" :> List(Wrapped(tracks)))
                      @@ (CASE sc.twin = "mirror" ->
                                 ("catalog/playlists/" \o sc.id \o "/tracks"
                                     :> List(Wrapped(tracks)))
                            [] sc.twin = "other" ->
                                 ("catalog/playlists/" \o sc.id \o "/tracks"
                                     :> List(Wrapped(Tracks(sc.n, 9000, FALSE))))
                            [] OTHER -> NoResources)
    IN  Server(res, sc.fail_at, Failure(sc.fail_status))

PlaylistKinds ==
    [kind : {"chart"}, id : {"42"}, g : {""}, t : {""}, twin : {"none"}]
    \cup [kind : {"playlist"}, id : {"555"}, g : {""}, t : {""}, twin : {"none"}]
    \cup [kind : {"library"}, id : {"555"}, g : {""}, t : {""},
          twin : {"mirror", "other", "missing"}]

GenreChartKinds ==
    [kind : {"genre_chart"}, id : {"genre-12-hype-3"}, g : {"12"}, t : {"3"},
     twin : {"present", "missing"}]

\* the calls of get_playlist_info: every count without a failure, and a failure of
\* each request of the longest aggregation
PlaylistCases(kinds) ==
    {k @@ [n |-> n, dup |-> dup, fail_at |-> 0, fail_status |-> 500] :
        k \in kinds, n \in Counts, dup \in BOOLEAN}
    \cup {k @@ [n |-> MaxPages * per_page_default, dup |-> FALSE,
                fail_at |-> f, fail_status |-> st] :
             k \in kinds, f \in 1..(MaxPages + 1), st \in {401, 500}}

PlaylistScenarios == PlaylistCases(PlaylistKinds) \cup PlaylistCases(GenreChartKinds)

\* the server behind a get_album_info call described by sc
AlbumServer(sc) ==
    Server(("catalog/releases/" \o sc.id :> Doc(ReleaseDoc(777)))
           @@ ("catalog/releases/" \o sc.id \o "/tracks" :> List(Tracks(sc.n, 2000, sc.dup))),
           sc.fail_at, Failure(sc.fail_status))

AlbumScenarios ==
    {[id |-> "777", cached |-> c, n |-> n, dup |-> dup, fail_at |-> 0, fail_status |-> 500] :
        c \in BOOLEAN, n \in Counts, dup \in BOOLEAN}
    \cup {[id |-> "777", cached |-> FALSE, n |-> MaxPages * per_page_default, dup |-> FALSE,
           fail_at |-> f, fail_status |-> st] :
             f \in 1..(MaxPages + 1), st \in {401, 500}}

AlbumData(sc) == IF sc.cached THEN (StrKey(sc.id) :> ReleaseDoc(777)) ELSE EmptyDict


\* the calls of get_track_info: every tier on an untroubled track, and every
\* outcome of the release fetch on every state of the track
TrackStates ==
    [tier : QualityEnum, streamable : {TRUE}, preorder : {"absent"}, release : {"ok"}]
    \cup [tier : {"HIGH"}, streamable : BOOLEAN, preorder : {"absent", "false", "true"},
          release : {"ok", "territory", "territory_json", "error", "unauthorized"}]

\* the data the host passes with the track id: none, a dict of the track alone,
\* or the track_extra_kwargs['data'] that get_album_info or get_playlist_info
\* returned for a list of two tracks, the track's neighbour having an id of its
\* own or the id of the track's release
CacheKinds == {"album", "playlist", "album_collision", "playlist_collision"}

TrackScenarios ==
    {s @@ [cached |-> c # "none", cache |-> c] : s \in TrackStates, c \in {"none", "track"}}
    \cup {s @@ [cached |-> TRUE, cache |-> c] :
             s \in [tier : {"HIGH"}, streamable : {TRUE}, preorder : {"absent"},
                    release : {"ok", "territory", "territory_json", "error",
                               "unauthorized"}],
             c \in CacheKinds}

ScenarioTrack(sc) ==
    (IF sc.preorder = "absent" THEN NoResources ELSE [preorder |-> sc.preorder = "true"])
    @@ [TrackDoc(10844269, 50) EXCEPT !.is_available_for_streaming = sc.streamable]

TrackServer(sc) ==
    Server(("catalog/tracks/10844269" :> Doc(ScenarioTrack(sc)))
           @@ ("catalog/releases/50" :>
                 CASE sc.release = "ok" -> Doc(ReleaseDoc(50))
                   [] sc.release = "territory" ->
                        Raw(Response(403, "Territory Restricted.", Nothing))
                   [] sc.release = "territory_json" ->
                        Raw(Response(451, "{\"detail\": \"Territory Restricted.\"}", Nothing))
                   [] sc.release = "error" -> Raw(Failure(500))
                   [] sc.release = "unauthorized" -> Raw(Failure(401))),
           0, Failure(500))

\* the id the host passes: the int of a cached list, or the str of a URL
TrackId(sc) == IF sc.cached THEN IntKey(10844269) ELSE StrKey("10844269")

\* the list the cache was made of: the neighbour, then the track
CachedTracks(sc) ==
    <<TrackDoc(IF sc.cache \in {"album_collision", "playlist_collision"} THEN 50
               ELSE 10844268, 50),
      ScenarioTrack(sc)>>

\* the server that answered the get_album_info or get_playlist_info call whose
\* cache the host passes on
CacheServer(sc) ==
    Server(("catalog/releases/50" :> Doc(ReleaseDoc(50)))
           @@ ("catalog/releases/50/tracks" :> List(CachedTracks(sc)))
           @@ ("catalog/playlists/555" :> Doc(PlaylistDoc))
           @@ ("catalog/playlists/555/tracks" :> List(Wrapped(CachedTracks(sc)))),
           0, Failure(500))

TrackData(sc) ==
    CASE sc.cache = "none" -> EmptyDict
      [] sc.cache = "track" -> (IntKey(10844269) :> ScenarioTrack(sc))
      [] sc.cache \in {"album", "album_collision"} ->
           get_album_info(CacheServer(sc), 800, "50", EmptyDict)
               .res.value.track_extra_kwargs.data
      [] sc.cache \in {"playlist", "playlist_collision"} ->
           get_playlist_info(CacheServer(sc), 800, "555", FALSE, FALSE)
               .res.value.track_extra_kwargs.data

\* the resolution the host is configured with (default_cover_options.resolution)
\* and asks covers at; it is above max_size
CoverSizes == {3000}

\* the calls of get_track_cover: every outcome of the track fetch
TrackCoverScenarios ==
    [track : {"ok", "error", "unauthorized"}, cached : BOOLEAN, resolution : CoverSizes]

TrackCoverServer(sc) ==
    Server(("catalog/tracks/10844269" :>
              CASE sc.track = "ok" -> Doc(TrackDoc(10844269, 50))
                [] sc.track = "error" -> Raw(Failure(500))
                [] sc.track = "unauthorized" -> Raw(Failure(401))),
           0, Failure(500))

TrackCoverData(sc) ==
    IF sc.cached THEN (IntKey(10844269) :> TrackDoc(10844269, 50)) ELSE EmptyDict

SignedUrl == "https://cdn.beatport.com/signed/10844269?sig=abc"

\* the calls of the adapter's get_track_download
DownloadScenarios ==
    [tier : QualityEnum \cup {"ULTRA"}, status : {200}, location : {"url", "missing", "empty"}]
    \cup [tier : QualityEnum \cup {"ULTRA"}, status : {201, 401, 404, 500}, location : {"url"}]

DownloadServer(sc) ==
    Server(NoResources, 1,
           Response(sc.status,
                    IF sc.status = 200 THEN "<json>" ELSE "{\"detail\": \"Internal error\"}",
                    CASE sc.location = "url" -> [location |-> SignedUrl]
                      [] sc.location = "empty" -> [location |-> ""]
                      [] sc.location = "missing" -> [stream_quality |-> "x"]))

Statuses == {200, 201, 202, 204, 302, 400, 401, 403, 404, 500}

Wrappers == {"get_track", "get_release", "get_release_tracks", "get_playlist",
             "get_playlist_tracks", "get_chart", "get_subscription",
             "get_library_playlist", "get_library_playlist_tracks"}

\* the calls of the client's GET wrappers, and the one response each gets
ClientScenarios == [wrapper : Wrappers, id : {"555"}, status : Statuses, text : ErrorBodies]

ClientServer(sc) == Server(NoResources, 1, Response(sc.status, sc.text, [answer |-> sc.status]))

ClientCall(sc) ==
    LET srv == ClientServer(sc)
    IN  CASE sc.wrapper = "get_track" -> get_track(srv, <<>>, sc.id)
          [] sc.wrapper = "get_release" -> get_release(srv, <<>>, sc.id)
          [] sc.wrapper = "get_release_tracks" ->
               get_release_tracks(srv, <<>>, sc.id, 1, per_page_default)
          [] sc.wrapper = "get_playlist" -> get_playlist(srv, <<>>, sc.id)
          [] sc.wrapper = "get_playlist_tracks" ->
               get_playlist_tracks(srv, <<>>, sc.id, 1, per_page_default)
          [] sc.wrapper = "get_chart" -> get_chart(srv, <<>>, sc.id)
          [] sc.wrapper = "get_subscription" -> get_subscription(srv, <<>>)
          [] sc.wrapper = "get_library_playlist" -> get_library_playlist(srv, <<>>, sc.id)
          [] sc.wrapper = "get_library_playlist_tracks" ->
               get_library_playlist_tracks(srv, <<>>, sc.id, 1, per_page_default)

GoodScope == "openid user:dj"

\* the account documents the introspection endpoint serves to get_account: the
\* personal fields at the top, inside objects, and inside the objects of a list
AccountDocs ==
    {[username |-> "dj_anna", email |-> "anna@example.com", scope |-> GoodScope],
     [scope |-> GoodScope,
      person |-> [first_name |-> "Anna", last_name |-> "Berg", name |-> "Anna Berg"],
      billing |-> [address1 |-> "1 Main St", city |-> "Oslo", zip |-> "0150",
                   person |-> [phone_number |-> "555-0100"]]],
     [scope |-> GoodScope,
      cards |-> <<[card_type |-> "visa", last_four |-> "4242"],
                  [card_type |-> "amex", last_four |-> "0005",
                   billing |-> [address1 |-> "2 Side St"]]>>]}

AccountScenarios == [doc : AccountDocs, status : {200, 403}]

AccountServer(sc) == Server(NoResources, 1, Response(sc.status, "<json>", sc.doc))

\* the server of the client's get_chart_tracks calls: any list answers empty
ChartTrackServer == Server(NoResources, 1, Response(200, "<json>", PageDoc(<<>>, 1, 1)))

ChartTrackScenarios ==
    [form : {"genre"}, g : {"1", "12"}, t : {"3", "10"}, id : {""},
     page : 1..MaxPageArg, per_page : {50, per_page_default}]
    \cup [form : {"plain"}, g : {""}, t : {""}, id : {"7", "123"},
          page : 1..MaxPageArg, per_page : {50, per_page_default}]

ChartId(sc) == IF sc.form = "genre" THEN "genre-" \o sc.g \o "-hype-" \o sc.t ELSE sc.id

\* the accounts and the runs of the three steps of auth
AllFeatures == required_features \o <<"feature:other">>
MISSING == "MISSING"

LoginScenarios ==
    [auth : {"bad_credentials", "no_cookie", "no_redirect", "no_code", "token_failed",
             "error_description"},
     introspect : {200}, scope : {GoodScope}, subscription : {"bp_link"},
     feature : {AllFeatures}]
    \cup [auth : {"ok"}, introspect : {401, 500}, scope : {GoodScope},
          subscription : {"bp_link"}, feature : {AllFeatures}]
    \cup [auth : {"ok"}, introspect : {200},
          scope : {MISSING, GoodScope, "openid", "user:djs openid"},
          subscription : {MISSING, "", "bp_link", "bp_link_pro", "bp_basic"},
          feature : {<<MISSING>>, AllFeatures, <<>>,
                     <<required_features[2], required_features[3]>>,
                     <<required_features[1], required_features[3]>>,
                     <<required_features[1], required_features[2]>>}]

TokenDoc == [access_token |-> "AT1", refresh_token |-> "RT1", expires_in |-> 3600]

\* the answers of the token endpoint to refresh: new tokens, an OAuth error, an
\* expired client, and a gateway's error page
RefreshDoc == [access_token |-> "AT2", refresh_token |-> "RT2", expires_in |-> 7200]

RefreshScenarios == [answer : {"ok", "invalid_grant", "unauthorized", "bad_gateway"}]

RefreshServer(sc) ==
    Server(("auth/o/token/" :> Raw(
               CASE sc.answer = "ok" -> Response(200, "<json>", RefreshDoc)
                 [] sc.answer = "invalid_grant" ->
                      Response(400, "<json>", [error |-> "invalid_grant"])
                 [] sc.answer = "unauthorized" ->
                      Response(401, "<json>", [error |-> "invalid_client"])
                 [] sc.answer = "bad_gateway" ->
                      Response(502, "<html>Bad Gateway</html>", Nothing))),
           0, Failure(500))

\* the session dicts the host restores with set_session: what get_session gave
\* it earlier, alone or stored beside another key
StoredSession == [access_token |-> "AT9", refresh_token |-> "RT9", expires |-> Some(9000)]

SessionDicts == {StoredSession, StoredSession @@ [saved_at |-> 8000]}

SubscriptionDoc(sc) ==
    (IF sc.scope = MISSING THEN NoResources ELSE [scope |-> sc.scope])
    @@ (IF sc.subscription = MISSING THEN NoResources ELSE [subscription |-> sc.subscription])
    @@ (IF sc.feature = <<MISSING>> THEN NoResources ELSE [feature |-> sc.feature])
    @@ [active |-> TRUE]

LoginServer(sc) ==
    Server(
        ("auth/login/" :> Raw(
            IF sc.auth = "bad_credentials" THEN Failure(401)
            ELSE [Response(200, "<json>", [username |-> "u"])
                      EXCEPT !.cookies = IF sc.auth = "no_cookie" THEN Nothing
                                         ELSE Some("sid1")]))
        @@ ("auth/o/authorize/" :> Raw(
            IF sc.auth = "no_redirect" THEN Response(200, "<html>", Nothing)
            ELSE [Response(302, "", Nothing)
                      EXCEPT !.location = IF sc.auth = "no_code"
                                          THEN "https://www.beatport.com/login"
                                          ELSE "https://api.beatport.com/cb?code=c0de&state=1"]))
        @@ ("auth/o/token/" :> Raw(
            IF sc.auth = "token_failed" THEN Failure(400)
            ELSE Response(200, "<json>",
                     IF sc.auth = "error_description"
                     THEN [error_description |-> "Invalid grant"] @@ TokenDoc
                     ELSE TokenDoc)))
        @@ ("auth/o/introspect" :> Raw(
            IF sc.introspect = 200 THEN Response(200, "<json>", SubscriptionDoc(sc))
            ELSE Failure(sc.introspect))),
        0, Failure(500))


\* the links the host hands to custom_url_parse
UrlScenarios ==
    [shape : {"library"}, scheme : {"https://", "http://"}, www : {"www.", ""},
     lang : {""}, type : {"playlists"}, slug : {""}, id : {"5", "555"}, g : {""}, t : {""}]
    \cup [shape : {"slug", "bare"}, scheme : {"https://", "http://"}, www : {"www.", ""},
          lang : {"", "de/"}, type : {"track", "release", "artist", "playlists", "chart"},
          slug : {"share"}, id : {"5", "555"}, g : {""}, t : {""}]
    \cup [shape : {"genre"}, scheme : {"https://"}, www : {"www.", ""},
          lang : {"", "de/"}, type : {"genre"}, slug : {"techno"}, id : {""},
          g : {"1", "12"}, t : {"3", "10"}]
    \cup [shape : {"label"}, scheme : {"https://"}, www : {"www."},
          lang : {""}, type : {"label"}, slug : {"drumcode"}, id : {"5", "555"},
          g : {""}, t : {""}]

Link(sc) ==
    sc.scheme \o sc.www \o "beatport.com/" \o
    CASE sc.shape = "library" -> "library/playlists/" \o sc.id
      [] sc.shape = "slug" -> sc.lang \o sc.type \o "/" \o sc.slug \o "/" \o sc.id
      [] sc.shape = "bare" -> sc.lang \o sc.type \o "/" \o sc.id
      [] sc.shape = "genre" ->
           sc.lang \o "genre/" \o sc.slug \o "/" \o sc.g \o "/hype-" \o sc.t
      [] sc.shape = "label" -> "label/" \o sc.slug \o "/" \o sc.id

\* the cover URLs of the vendor and the sizes the host asks for
CoverScenarios ==
    [prefix : {"https://geo-media.beatport.com/image_size/",
               "https://geo-media.beatport.com/v2/image_size/"},
     token : {"500x500", "1400x1400", "250x1400", "{w}x{h}", "50x50"},
     suffix : {"/ab2d1d04.jpg"},
     size : {1, 800, max_size - 1, max_size, max_size + 1, 3000}]

CoverUrl(sc) == sc.prefix \o sc.token \o sc.suffix

NoAdapter ==
    [exists |-> FALSE, disable_subscription_check |-> FALSE, logged_in |-> FALSE,
     cover_size |-> 0, debug_enabled |-> FALSE]
NoResult == [kind |-> "none"]
NoArgs == [a \in {} |-> Nothing]

(***************************************************************************)
(* beatport_api.py: the debug log.  An entry is one call of debug_log.debug:*)
(* its label, and the value written after it, which is a text or a JSON    *)
(* value that was formatted.  Every request of a call writes its entries   *)
(* around its own response, so the entries of a call are those of its      *)
(* requests in order.                                                      *)
(***************************************************************************)
Entry(label, form, value) == [label |-> label, form |-> form, value |-> value]

\* sensitive_fields of _sanitize_data
sensitive_fields ==
    [username |-> "***", password |-> "***", email |-> "***@***.***",
     firstName |-> "***", lastName |-> "***", phone_number |-> "***",
     phone_primary |-> "***", address1 |-> "***", address2 |-> "***", city |-> "***",
     zip |-> "***", first_name |-> "***", last_name |-> "***", name |-> "***",
     card_type |-> "***", last_four |-> "***"]

\* the JSON types of the vendor's documents, by key: the keys that hold an
\* object and those that hold a list of objects; every other key holds a scalar
\* or a list of scalars
ObjectKeys == {"release", "image", "label", "genre", "sub_genre", "key", "person", "track",
               "quality_info", "billing"}
ObjectListKeys == {"artists", "results", "cards"}

\* def _sanitize_data(self, data), on a JSON object: the sensitive fields are
\* masked first, then the values that are objects and the objects inside the
\* values that are lists are sanitized
RECURSIVE _sanitize_data(_)
_sanitize_data(data) ==
    IF data = EmptyDict THEN data
    ELSE [k \in DOMAIN data |->
            IF k \in DOMAIN sensitive_fields THEN sensitive_fields[k]
            ELSE IF k \in ObjectKeys THEN _sanitize_data(data[k])
            ELSE IF k \in ObjectListKeys
            THEN [i \in DOMAIN data[k] |-> _sanitize_data(data[k][i])]
            ELSE data[k]]

\* def headers(self, use_access_token=True)
headers(access_token) ==
    [Accept_Encoding |-> "gzip", Connection |-> "Keep-Alive", User_Agent |-> "Mozilla/5.0",
     Authorization |-> "Bearer " \o access_token]

\* the request part of _log_request_response: the Authorization header is cut
\* to its first 50 characters
LogRequest(request, access_token) ==
    LET bearer == headers(access_token).Authorization
    IN  <<Entry("METHOD", "text", request.method),
          Entry("URL", "text", request.url),
          Entry("HEADERS", "json",
                [headers(access_token) EXCEPT
                    !.Authorization = Slice(bearer, 1, Min({51, Len(bearer) + 1})) \o "..."])>>

\* the body a response carries: the JSON it serialises, or its text
RawBody(r) == IF r.json # Nothing THEN Entry("BODY", "json", r.json)
              ELSE Entry("BODY", "text", r.text)

\* the response part of _log_request_response: `if response:` holds for the
\* statuses below 400; the body is sanitized when it is a JSON object, and
\* written as text when it is no JSON
LogResponse(r) ==
    IF r.status >= 400 THEN <<>>
    ELSE <<Entry("STATUS", "text", r.status),
           IF r.json # Nothing THEN Entry("RESPONSE BODY", "json", _sanitize_data(r.json))
           ELSE Entry("RESPONSE BODY", "text", r.text)>>

\* what _get writes: the request before the call, and the request again with the
\* response after it
LogOfGet(request, r, access_token) ==
    LogRequest(request, access_token) \o LogRequest(request, access_token) \o LogResponse(r)

\* what auth writes before each of its three requests: the URL, and the data or
\* the headers as they are
LogOfAuth(request) ==
    <<Entry("URL", "text", request.url),
      IF request.method = "POST" THEN Entry("Data", "json", request.params)
      ELSE Entry("Headers", "json", [Cookie |-> "sessionid=sid1"])>>

\* what the client's get_track_download writes around its request: the headers
\* and the body of the response as they are
LogOfDownload(request, r, access_token) ==
    <<Entry("URL", "text", request.url),
      Entry("Params", "json", request.params),
      Entry("Headers", "json", headers(access_token)),
      Entry("Status", "text", r.status),
      [RawBody(r) EXCEPT !.label = "Body"]>>
    \o (IF r.status = 200
        THEN <<Entry("Download URL", "text", Get(r.json, "location", None))>> ELSE <<>>)

\* the endpoint of a request of the log
EndpointOf(request) == Slice(request.url, Len(API_URL) + 1, Len(request.url) + 1)

\* the entries the i-th request of a call writes
LogOfRequest(srv, log, i, access_token) ==
    LET request == log[i]
        endpoint == EndpointOf(request)
        r == Respond(srv, i, endpoint, request.params)
    IN  IF endpoint \in {"auth/login/", "auth/o/authorize/", "auth/o/token/"}
        THEN LogOfAuth(request)
        ELSE IF LitAt(endpoint, Len(endpoint) - Len("/download/") + 1, "/download/")
        THEN LogOfDownload(request, r, access_token)
        ELSE LogOfGet(request, r, access_token)

\* the entries of the requests lo..hi of a call, in order
RECURSIVE LogOfRequests(_, _, _, _, _)
LogOfRequests(srv, log, lo, hi, access_token) ==
    IF lo > hi THEN <<>>
    ELSE LogOfRequest(srv, log, lo, access_token)
             \o LogOfRequests(srv, log, lo + 1, hi, access_token)

\* what a call has written to the debug log: nothing unless debug_enabled
Written(debug_enabled, srv, log, access_token) ==
    IF debug_enabled THEN LogOfRequests(srv, log, 1, Len(log), access_token) ELSE <<>>

(***************************************************************************)
(* The host.  It constructs one adapter, calls one operation at a time and *)
(* takes the result before the next call.  op, args, result and requests   *)
(* describe the call in progress: what was called, with what, what it      *)
(* returned or raised, and the HTTP requests it issued in order.           *)
(***************************************************************************)
Init ==
    /\ pc = "idle"
    /\ adapter = NoAdapter
    /\ session = NoSession
    /\ op = "none"
    /\ args = NoArgs
    /\ result = NoResult
    /\ requests = <<>>
    /\ debug_log = <<>>

Called(name, a, res, log) ==
    /\ pc' = "done"
    /\ op' = name
    /\ args' = a
    /\ result' = res
    /\ requests' = log

\* ModuleInterface(module_controller): adapter.logged_in records that login ran to
\* its end on this instance; debug is module_settings['debug']
Construct ==
    /\ pc = "idle"
    /\ ~adapter.exists
    /\ \E sc \in LoginScenarios, disable \in BOOLEAN, size \in CoverSizes, debug \in BOOLEAN :
         \E r \in {__init__(LoginServer(sc), disable, "user", "secret")} :
             /\ Called("__init__", [disable_subscription_check |-> disable, account |-> sc,
                                    debug |-> debug],
                       r.res, r.log)
             /\ adapter' = IF Returned(r.res)
                           THEN [exists |-> TRUE, disable_subscription_check |-> disable,
                                 logged_in |-> ~disable, cover_size |-> size,
                                 debug_enabled |-> debug]
                           ELSE adapter
             /\ session' = IF Returned(r.res) THEN r.session ELSE session
             /\ debug_log' = Written(debug, LoginServer(sc), r.log, r.session.access_token)

\* adapter.login(email, password) on the constructed adapter
Login ==
    /\ pc = "idle"
    /\ adapter.exists
    /\ \E sc \in LoginScenarios :
         \E r \in {login(LoginServer(sc), <<>>, session, "user", "secret")} :
             /\ Called("login", [account |-> sc], r.res, r.log)
             /\ adapter' = [adapter EXCEPT !.logged_in = @ \/ Returned(r.res)]
             /\ session' = r.session
             /\ debug_log' = Written(adapter.debug_enabled, LoginServer(sc), r.log,
                                     r.session.access_token)

\* ModuleInterface.custom_url_parse(link), a static method
ParseUrl ==
    /\ pc = "idle"
    /\ \E sc \in UrlScenarios :
         Called("custom_url_parse", sc, custom_url_parse(Link(sc)), <<>>)
    /\ UNCHANGED <<adapter, session, debug_log>>

\* ModuleInterface._generate_artwork_url(cover_url, size), a static method
GenerateArtworkUrl ==
    /\ pc = "idle"
    /\ \E sc \in CoverScenarios :
         Called("_generate_artwork_url", sc, _generate_artwork_url(CoverUrl(sc), sc.size), <<>>)
    /\ UNCHANGED <<adapter, session, debug_log>>

\* adapter.get_playlist_info(media_id, **extra_kwargs)
GetPlaylistInfo ==
    /\ pc = "idle"
    /\ adapter.exists
    /\ \E sc \in PlaylistScenarios :
         \E r \in {get_playlist_info(PlaylistServer(sc), adapter.cover_size, sc.id,
                                    sc.kind \in {"chart", "genre_chart"}, sc.kind = "library")} :
             /\ Called("get_playlist_info", sc, r.res, r.log)
             /\ debug_log' = Written(adapter.debug_enabled, PlaylistServer(sc), r.log,
                                     session.access_token)
    /\ UNCHANGED <<adapter, session>>

\* adapter.get_album_info(album_id, data)
GetAlbumInfo ==
    /\ pc = "idle"
    /\ adapter.exists
    /\ \E sc \in AlbumScenarios :
         \E r \in {get_album_info(AlbumServer(sc), adapter.cover_size, sc.id, AlbumData(sc))} :
             /\ Called("get_album_info", sc, r.res, r.log)
             /\ debug_log' = Written(adapter.debug_enabled, AlbumServer(sc), r.log,
                                     session.access_token)
    /\ UNCHANGED <<adapter, session>>

\* adapter.get_track_info(track_id, quality_tier, codec_options, data=data)
GetTrackInfo ==
    /\ pc = "idle"
    /\ adapter.exists
    /\ \E sc \in TrackScenarios :
         \E r \in {get_track_info(TrackServer(sc), adapter.cover_size, TrackId(sc), sc.tier,
                                 TrackData(sc))} :
             /\ Called("get_track_info", sc, r.res, r.log)
             /\ debug_log' = Written(adapter.debug_enabled, TrackServer(sc), r.log,
                                     session.access_token)
    /\ UNCHANGED <<adapter, session>>

\* adapter.get_track_cover(track_id, cover_options, data=data)
GetTrackCover ==
    /\ pc = "idle"
    /\ adapter.exists
    /\ \E sc \in TrackCoverScenarios :
         \E r \in {get_track_cover(TrackCoverServer(sc), TrackId(sc), sc.resolution,
                                  TrackCoverData(sc))} :
             /\ Called("get_track_cover", sc, r.res, r.log)
             /\ debug_log' = Written(adapter.debug_enabled, TrackCoverServer(sc), r.log,
                                     session.access_token)
    /\ UNCHANGED <<adapter, session>>

\* adapter.get_track_download(track_id, quality_tier)
GetTrackDownload ==
    /\ pc = "idle"
    /\ adapter.exists
    /\ \E sc \in DownloadScenarios :
         \E r \in {get_track_download(DownloadServer(sc), StrKey("10844269"), sc.tier)} :
             /\ Called("get_track_download", sc, r.res, r.log)
             /\ debug_log' = Written(adapter.debug_enabled, DownloadServer(sc), r.log,
                                     session.access_token)
    /\ UNCHANGED <<adapter, session>>

\* one of the client's GET wrappers, called on adapter.session
ClientGet ==
    /\ pc = "idle"
    /\ adapter.exists
    /\ \E sc \in ClientScenarios :
         \E r \in {ClientCall(sc)} :
             /\ Called("_get", sc, r.res, r.log)
             /\ debug_log' = Written(adapter.debug_enabled, ClientServer(sc), r.log,
                                     session.access_token)
    /\ UNCHANGED <<adapter, session>>

\* adapter.session.get_chart_tracks(chart_id, page, per_page)
ClientGetChartTracks ==
    /\ pc = "idle"
    /\ adapter.exists
    /\ \E sc \in ChartTrackScenarios :
         \E r \in {get_chart_tracks(ChartTrackServer, <<>>, ChartId(sc), sc.page, sc.per_page)} :
             /\ Called("get_chart_tracks", sc, r.res, r.log)
             /\ debug_log' = Written(adapter.debug_enabled, ChartTrackServer, r.log,
                                     session.access_token)
    /\ UNCHANGED <<adapter, session>>

\* adapter.session.get_account()
ClientGetAccount ==
    /\ pc = "idle"
    /\ adapter.exists
    /\ \E sc \in AccountScenarios :
         \E r \in {get_account(AccountServer(sc), <<>>)} :
             /\ Called("get_account", sc, r.res, r.log)
             /\ debug_log' = Written(adapter.debug_enabled, AccountServer(sc), r.log,
                                     session.access_token)
    /\ UNCHANGED <<adapter, session>>

\* adapter.session.refresh(); refresh writes nothing to the debug log
ClientRefresh ==
    /\ pc = "idle"
    /\ adapter.exists
    /\ \E sc \in RefreshScenarios :
         \E r \in {refresh(RefreshServer(sc), <<>>, session)} :
             /\ Called("refresh", sc, r.res, r.log)
             /\ session' = r.session
    /\ debug_log' = <<>>
    /\ UNCHANGED adapter

\* adapter.session.set_session(s)
ClientSetSession ==
    /\ pc = "idle"
    /\ adapter.exists
    /\ \E s \in SessionDicts :
         /\ Called("set_session", s, Ret(None), <<>>)
         /\ session' = set_session(s)
    /\ UNCHANGED <<adapter, debug_log>>

\* adapter.session.get_session()
ClientGetSession ==
    /\ pc = "idle"
    /\ adapter.exists
    /\ Called("get_session", NoArgs, Ret(get_session(session)), <<>>)
    /\ UNCHANGED <<adapter, session, debug_log>>

\* the call is over: the host has the result or the exception
Return ==
    /\ pc = "done"
    /\ pc' = "idle"
    /\ op' = "none"
    /\ args' = NoArgs
    /\ result' = NoResult
    /\ requests' = <<>>
    /\ debug_log' = <<>>
    /\ UNCHANGED <<adapter, session>>

Next ==
    \/ Construct
    \/ Login
    \/ ParseUrl
    \/ GenerateArtworkUrl
    \/ GetPlaylistInfo
    \/ GetAlbumInfo
    \/ GetTrackInfo
    \/ GetTrackCover
    \/ GetTrackDownload
    \/ ClientGet
    \/ ClientGetChartTracks
    \/ ClientGetAccount
    \/ Return

Spec == Init /\ [][Next]_vars

\* the calls that read or write the client's session: the logins, refresh,
\* set_session and get_session, and the client's and the adapter's fetches of
\* single documents, which send the access token
SessionNext ==
    \/ Construct
    \/ Login
    \/ ClientRefresh
    \/ ClientSetSession
    \/ ClientGetSession
    \/ ClientGet
    \/ ClientGetChartTracks
    \/ ClientGetAccount
    \/ GetTrackInfo
    \/ GetTrackCover
    \/ GetTrackDownload
    \/ Return

SessionSpec == Init /\ [][SessionNext]_vars

(***************************************************************************)
(* The claims.  Each is stated on the call the host has just made: op and  *)
(* args say which call, result what it returned or raised, requests the    *)
(* HTTP requests it issued.                                                *)
(***************************************************************************)

\* C1: get_chart_tracks sends a chart id genre-<g>-hype-<t> to
\* catalog/genres/<g>/hype/<t>/tracks and not to catalog/charts/<id>/tracks, and
\* a plain numeric chart id to catalog/charts/<id>/tracks; in both cases the
\* request carries the page and per_page it was called with.
C1_ChartTracksRouting ==
    (pc = "done" /\ op = "get_chart_tracks") =>
        /\ Len(requests) = 1
        /\ requests[1].method = "GET"
        /\ args.form = "genre" =>
             /\ requests[1].url =
                    API_URL \o "catalog/genres/" \o args.g \o "/hype/" \o args.t \o "/tracks"
             /\ requests[1].url # API_URL \o "catalog/charts/" \o ChartId(args) \o "/tracks"
        /\ args.form = "plain" =>
             requests[1].url = API_URL \o "catalog/charts/" \o args.id \o "/tracks"
        /\ requests[1].params = [page |-> args.page, per_page |-> args.per_page]

\* a call with the chart id genre-12-hype-3, page 2 and 50 per page has gone to
\* the genre endpoint
C1_Witness ==
    /\ pc = "done"
    /\ op = "get_chart_tracks"
    /\ ChartId(args) = "genre-12-hype-3"
    /\ args.page = 2
    /\ args.per_page = 50
    /\ requests[1].url = "https://api.beatport.com/v4/catalog/genres/12/hype/3/tracks"

\* what C2 asks of a parsed link: a playlist identifier of the link's id
IsPlaylistOf(sc, res) ==
    /\ Returned(res)
    /\ res.value.media_type = "playlist"
    /\ res.value.media_id = sc.id

\* C2 as stated: a library playlist URL parses to a playlist identifier with
\* is_library set, and a URL .../playlists/<id> to one without is_library and
\* with is_chart false, and is not rejected.
C2_PlaylistUrls_AsStated ==
    (pc = "done" /\ op = "custom_url_parse") =>
        /\ args.shape = "library" =>
             /\ IsPlaylistOf(args, result)
             /\ result.value.extra_kwargs = [is_library |-> TRUE]
        /\ (args.shape = "bare" /\ args.type = "playlists") =>
             /\ IsPlaylistOf(args, result)
             /\ result.value.extra_kwargs = [is_chart |-> FALSE]

\* C2, amended: a library playlist URL parses to a playlist identifier with
\* is_library set; a URL .../playlists/<slug>/<id> with a slug segment between
\* the type and the id parses to a playlist identifier of <id> without
\* is_library and with is_chart false; a URL .../playlists/<id> without the slug
\* is rejected with ValueError("Invalid URL format").
C2_PlaylistUrls ==
    (pc = "done" /\ op = "custom_url_parse") =>
        /\ args.shape = "library" =>
             /\ IsPlaylistOf(args, result)
             /\ result.value.extra_kwargs = [is_library |-> TRUE]
        /\ (args.shape = "slug" /\ args.type = "playlists") =>
             /\ IsPlaylistOf(args, result)
             /\ result.value.extra_kwargs = [is_chart |-> FALSE]
        /\ (args.shape = "bare" /\ args.type = "playlists") =>
             result = Raise("ValueError", "Invalid URL format")

\* https://www.beatport.com/playlists/share/555 has parsed to the playlist 555
C2_Witness ==
    /\ pc = "done"
    /\ op = "custom_url_parse"
    /\ Link(args) = "https://www.beatport.com/playlists/share/555"
    /\ IsPlaylistOf(args, result)
    /\ result.value.media_id = "555"
    /\ "is_library" \notin DOMAIN result.value.extra_kwargs

\* the requests of the call in progress that ask for a page of tracks, in order
PageRequests == SelectSeq(requests, LAMBDA r : "page" \in DOMAIN r.params)

\* the ids of the list the call in progress aggregates, in the server's order
ServerOrder ==
    LET items == Tracks(args.n, IF op = "get_album_info" THEN 2000 ELSE 1000, args.dup)
    IN  [i \in DOMAIN items |-> items[i].id]

\* ceil(n / 100)
CeilPages(n) == (n + page_size - 1) \div page_size

\* C3: when page 1 of the tracks reports the total count N and no request fails,
\* get_playlist_info and get_album_info request the track pages 1, 2, ...,
\* max(1, ceil(N/100)) in that order, each once and none beyond, and return a
\* track list that holds all N items in the server's order.
C3_Pagination ==
    (/\ pc = "done"
     /\ op \in {"get_playlist_info", "get_album_info"}
     /\ args.fail_at = 0
     /\ PageRequests # <<>>) =>
        /\ [i \in DOMAIN PageRequests |-> PageRequests[i].params.page]
               = [i \in 1..Max({1, CeilPages(args.n)}) |-> i]
        /\ \A i \in DOMAIN PageRequests : PageRequests[i].params.per_page = page_size
        /\ Returned(result)
        /\ result.value.tracks = ServerOrder

\* C4: after get_playlist_info or get_album_info returns, the record held in
\* track_extra_kwargs['data'] under the id at position i of the returned track
\* list carries position i (track_number = i and total_tracks = the count of
\* page 1 for playlists and charts, number = i for albums), for every i.
C4_PositionAnnotation ==
    (/\ pc = "done"
     /\ op \in {"get_playlist_info", "get_album_info"}
     /\ Returned(result)) =>
        \A i \in DOMAIN result.value.tracks :
            LET record == result.value.track_extra_kwargs.data[IntKey(result.value.tracks[i])]
            IN  IF op = "get_album_info"
                THEN record.number = i
                ELSE record.track_number = i /\ record.total_tracks = args.n

\* the mapping C5 states: per tier the bitrate, the codec, the bit depth and the
\* vendor's quality parameter
StatedQuality(tier) ==
    CASE tier \in {"MINIMUM", "LOW", "MEDIUM"} ->
           [bitrate |-> 128, codec |-> "AAC", bit_depth |-> Nothing, quality |-> "128k.aac"]
      [] tier = "HIGH" ->
           [bitrate |-> 256, codec |-> "AAC", bit_depth |-> Nothing, quality |-> "256k.aac"]
      [] tier \in {"LOSSLESS", "HIFI"} ->
           [bitrate |-> 1411, codec |-> "FLAC", bit_depth |-> Some(16),
            quality |-> "lossless"]

\* C5: for each of the six tiers get_track_info reports the stated bitrate, codec
\* and bit depth, get_track_download asks the vendor for the stated quality
\* parameter, and the codec flag get_track_download returns is the codec
\* get_track_info reports for that tier.
C5_QualityMapping ==
    /\ (pc = "done" /\ op = "get_track_info" /\ args.release # "unauthorized") =>
         /\ Returned(result)
         /\ result.value.bitrate = StatedQuality(args.tier).bitrate
         /\ result.value.codec = StatedQuality(args.tier).codec
         /\ result.value.bit_depth = StatedQuality(args.tier).bit_depth
         /\ result.value.download_extra_kwargs.quality_tier = args.tier
    /\ (pc = "done" /\ op = "get_track_download" /\ args.tier \in QualityEnum) =>
         /\ Len(requests) = 1
         /\ requests[1].params = [quality |-> StatedQuality(args.tier).quality]
         /\ Returned(result) =>
              result.value.different_codec = StatedQuality(args.tier).codec

\* get_track_download has returned for the MEDIUM tier: 128k.aac asked, AAC flagged
C5_Witness ==
    /\ pc = "done"
    /\ op = "get_track_download"
    /\ args.tier = "MEDIUM"
    /\ Returned(result)
    /\ requests[1].params.quality = "128k.aac"
    /\ result.value.different_codec = "AAC"

\* C6: for a cover URL with a WxH token of 3-4 digits each or the {w}x{h}
\* placeholders, _generate_artwork_url returns the URL with m x m in their place,
\* m = min(size, 1400).
C6_ArtworkSize ==
    (pc = "done" /\ op = "_generate_artwork_url" /\ args.token # "50x50") =>
        LET m == IF args.size < 1400 THEN args.size ELSE 1400
        IN  /\ result = Ret(args.prefix \o Str(m) \o "x" \o Str(m) \o args.suffix)
            /\ (args.token = "500x500" /\ args.size = 800) =>
                 Contains(result.value, "/800x800/")
            /\ args.size > 1400 => Contains(result.value, "/1400x1400/")

\* a 500x500 cover asked at 3000 has come back at 1400x1400
C6_Witness ==
    /\ pc = "done"
    /\ op = "_generate_artwork_url"
    /\ args.token = "500x500"
    /\ args.size = 3000
    /\ result = Ret("https://geo-media.beatport.com/image_size/1400x1400/ab2d1d04.jpg")

\* C7: when the fetch of the parent release fails with a connection failure whose
\* body contains "Territory Restricted.", get_track_info returns a track record
\* whose error is "Album <id> is region locked", whatever the track's
\* is_available_for_streaming and preorder are.
C7_RegionLock ==
    (/\ pc = "done"
     /\ op = "get_track_info"
     /\ args.release \in {"territory", "territory_json"}) =>
        /\ Returned(result)
        /\ result.value.error # None
        /\ result.value.error = "Album 50 is region locked"

\* C8: a GET wrapper returns the parsed JSON body iff the status is 200, 201 or
\* 202, raises ValueError on 401 and ConnectionError with the raw body as its
\* detail on every other status, and issues exactly one HTTP request.
C8_GetStatusDispatch ==
    (pc = "done" /\ op = "_get") =>
        /\ Len(requests) = 1
        /\ requests[1].method = "GET"
        /\ Returned(result) <=> args.status \in {200, 201, 202}
        /\ Returned(result) => result.value = [answer |-> args.status]
        /\ args.status = 401 <=> (Raised(result) /\ result.exc = "ValueError")
        /\ args.status \notin {200, 201, 202, 401} =>
             result = Raise("ConnectionError", args.text)

\* get_release has met a 204 and raised ConnectionError with the body as detail
C8_Witness ==
    /\ pc = "done"
    /\ op = "_get"
    /\ args.wrapper = "get_release"
    /\ args.status = 204
    /\ args.text = "Territory Restricted."
    /\ result = Raise("ConnectionError", "Territory Restricted.")
    /\ Len(requests) = 1

\* the calls of get_track_download that C9 counts as failing
DownloadFails(sc) ==
    \/ sc.tier \notin QualityEnum
    \/ sc.status # 200
    \/ sc.location \in {"missing", "empty"}

\* C9: every failure of the adapter's get_track_download leaves as the adapter's
\* error; the adapter's own "Could not get download URL" error leaves unchanged,
\* not wrapped again; on success the record carries the signed URL and the codec
\* flag FLAC exactly for LOSSLESS and HIFI.
C9_DownloadErrors ==
    (pc = "done" /\ op = "get_track_download") =>
        /\ Raised(result) <=> DownloadFails(args)
        /\ Raised(result) => result.exc = "module_error"
        /\ (args.tier \in QualityEnum /\ args.status = 200
                /\ args.location \in {"missing", "empty"}) =>
             result = Raise("module_error", "Could not get download URL")
        /\ (args.tier \in QualityEnum /\ args.status = 404) =>
             result = Raise("module_error",
                            "Download failed: Track 10844269 not available for download")
        /\ ~DownloadFails(args) =>
             result = Ret([download_type |-> "URL", file_url |-> SignedUrl,
                           different_codec |-> IF args.tier \in {"LOSSLESS", "HIFI"}
                                               THEN "FLAC" ELSE "AAC"])

\* a download answered 200 without a location has raised the adapter's own error
C9_Witness ==
    /\ pc = "done"
    /\ op = "get_track_download"
    /\ args.status = 200
    /\ args.location = "missing"
    /\ args.tier = "HIFI"
    /\ result = Raise("module_error", "Could not get download URL")

\* the account passes the checks C10 lists: auth succeeds and the introspection
\* has the user:dj scope, a LINK or LINK PRO subscription and the three features
Passes(account) ==
    /\ account.auth = "ok"
    /\ account.introspect = 200
    /\ account.scope = GoodScope
    /\ account.subscription \in {"bp_link", "bp_link_pro"}
    /\ account.feature = AllFeatures

\* the message of the first check an authenticated, introspected account fails, in
\* the order scope, subscription present, subscription tier, features
FirstFailedCheck(account) ==
    IF account.scope # GoodScope THEN "Account does not have DJ/streaming permissions"
    ELSE IF account.subscription \in {MISSING, ""} THEN "No active subscription found"
    ELSE IF account.subscription \notin {"bp_link", "bp_link_pro"}
    THEN "Account does not have a LINK or LINK PRO subscription"
    ELSE "Account missing required features: "

\* login has run in the call in progress: it was called, or __init__ called it
LoginRan ==
    /\ pc = "done"
    /\ \/ op = "login"
       \/ op = "__init__" /\ ~args.disable_subscription_check

\* the part of C10 about login: it returns only for an account that passes, and
\* raises the adapter's error with the first failed check's message otherwise
LoginChecks ==
    LoginRan =>
        /\ Returned(result) <=> Passes(args.account)
        /\ (args.account.auth = "ok" /\ args.account.introspect = 200
                /\ ~Passes(args.account)) =>
             /\ Raised(result)
             /\ result.exc = "module_error"
             /\ LitAt(result.detail, 1, FirstFailedCheck(args.account))
             /\ args.account.feature = AllFeatures =>
                  result.detail = FirstFailedCheck(args.account)

\* C10 as stated: login returns only for an account that passes the checks and
\* raises the adapter's error otherwise, and no adapter instance exists on which
\* login has not run to its end.
C10_Login_AsStated ==
    /\ LoginChecks
    /\ adapter.exists => adapter.logged_in

\* C10, amended: login returns only for an account that passes the checks and
\* raises the adapter's error otherwise; an adapter instance on which login has
\* not run to its end exists only when the host set disable_subscription_check,
\* with which __init__ skips login and issues no request.
C10_Login ==
    /\ LoginChecks
    /\ adapter.exists => (adapter.logged_in \/ adapter.disable_subscription_check)
    /\ (pc = "done" /\ op = "__init__" /\ args.disable_subscription_check) =>
         /\ Returned(result)
         /\ requests = <<>>

\* login has raised on an account with the scope and a LINK subscription that
\* lacks one of the three features
C10_Witness ==
    /\ pc = "done"
    /\ op = "login"
    /\ args.account.scope = GoodScope
    /\ args.account.subscription = "bp_link_pro"
    /\ args.account.feature = <<required_features[1], required_features[3]>>
    /\ result = Raise("module_error",
                      "Account missing required features: feature:cdnfulfillment")

\* debug logging is on in the call in progress
DebugOn == IF op = "__init__" THEN args.debug ELSE adapter.debug_enabled

\* a JSON object holds a credential-like field with a value other than its mask,
\* at any depth of its objects and lists
RECURSIVE Unredacted(_)
Unredacted(d) ==
    \E k \in DOMAIN d :
        \/ k \in DOMAIN sensitive_fields /\ d[k] # sensitive_fields[k]
        \/ k \notin DOMAIN sensitive_fields /\ k \in ObjectKeys /\ Unredacted(d[k])
        \/ k \notin DOMAIN sensitive_fields /\ k \in ObjectListKeys
             /\ \E i \in DOMAIN d[k] : Unredacted(d[k][i])

\* C11: with debug logging on, no entry a client operation writes to the log
\* holds the unredacted value of a credential-like field, at any depth of the
\* logged request or response body; with debug logging off, nothing is written.
C11_LogRedaction ==
    pc = "done" =>
        /\ ~DebugOn => debug_log = <<>>
        /\ \A i \in DOMAIN debug_log :
             debug_log[i].form = "json" => ~Unredacted(debug_log[i].value)

\* the vendor's server in the adapter call in progress
CallServer ==
    CASE op \in {"__init__", "login"} -> LoginServer(args.account)
      [] op = "get_playlist_info" -> PlaylistServer(args)
      [] op = "get_album_info" -> AlbumServer(args)
      [] op = "get_track_info" -> TrackServer(args)
      [] op = "get_track_cover" -> TrackCoverServer(args)
      [] op = "get_track_download" -> DownloadServer(args)
      [] op = "refresh" -> RefreshServer(args)

AdapterOps == {"__init__", "login", "get_playlist_info", "get_album_info", "get_track_info",
               "get_track_cover", "get_track_download"}

\* the vendor's answer to the i-th request of the call
Answer(i) == Respond(CallServer, i, EndpointOf(requests[i]), requests[i].params)

FailedRequest(i) == Answer(i).status >= 400

\* the failed request is the fetch of a region-locked release in get_track_info,
\* and the track record reports it in its error string
RegionLockReported(i) ==
    /\ op = "get_track_info"
    /\ Contains(EndpointOf(requests[i]), "catalog/releases/")
    /\ Contains(Answer(i).text, "Territory Restricted.")
    /\ Returned(result)
    /\ result.value.error # None

\* C12: whenever a vendor request an adapter operation issues fails (401 or any
\* other non-success status), the operation raises; it returns no normal result,
\* except that get_track_info reports a region-locked release fetch in the
\* error string of the record it returns.
C12_FailedRequestRaises ==
    (pc = "done" /\ op \in AdapterOps) =>
        \A i \in DOMAIN requests :
            FailedRequest(i) => (Raised(result) \/ RegionLockReported(i))

\* the path of the i-th request of the call starts with prefix
GoesTo(i, prefix) == LitAt(EndpointOf(requests[i]), 1, prefix)

\* C13: a get_playlist_info call with is_library set sends every request, the
\* metadata request and every track page 1..ceil(N/100), to my/playlists/<id>
\* and none to catalog/playlists/<id>; a call for a public playlist sends no
\* request to my/playlists.
C13_LibraryRouting ==
    (pc = "done" /\ op = "get_playlist_info") =>
        /\ args.kind = "library" =>
             \A i \in DOMAIN requests :
                 /\ GoesTo(i, "my/playlists/" \o args.id)
                 /\ ~GoesTo(i, "catalog/playlists/" \o args.id)
        /\ args.kind = "playlist" =>
             \A i \in DOMAIN requests : ~GoesTo(i, "my/playlists/")

\* C14: a genre hype chart URL parses to the playlist id genre-<g>-hype-<t>
\* with is_chart set, and get_playlist_info on that id sends every request, the
\* metadata request and the track pages, under catalog/genres/<g>/hype/<t>
\* and none to catalog/charts/<the composite id>.
C14_GenreChartRouting ==
    /\ (pc = "done" /\ op = "custom_url_parse" /\ args.shape = "genre") =>
           result = Ret(MediaIdentification("playlist",
                            "genre-" \o args.g \o "-hype-" \o args.t, [is_chart |-> TRUE]))
    /\ (pc = "done" /\ op = "get_playlist_info" /\ args.kind = "genre_chart") =>
           \A i \in DOMAIN requests :
               /\ GoesTo(i, "catalog/genres/" \o args.g \o "/hype/" \o args.t)
               /\ ~GoesTo(i, "catalog/charts/" \o args.id)

\* the i-th request of the call asks for a page p >= 2 of the tracks, and fails
LaterPageFails(i) ==
    /\ "page" \in DOMAIN requests[i].params
    /\ requests[i].params.page >= 2
    /\ FailedRequest(i)

\* what _get raises for the answer to the i-th request
FailureOf(i) ==
    Raise(IF Answer(i).status = 401 THEN "ValueError" ELSE "ConnectionError", Answer(i).text)

\* C15: when the fetch of a page p >= 2 fails in get_playlist_info or
\* get_album_info, the aggregation raises that failure and returns no partial
\* result, the failed request is the last one of the call, and the failed page
\* is requested once.
C15_PageFailureStops ==
    (pc = "done" /\ op \in {"get_playlist_info", "get_album_info"}) =>
        \A i \in DOMAIN requests :
            LaterPageFails(i) =>
                /\ result = FailureOf(i)
                /\ i = Len(requests)
                /\ \A j \in DOMAIN requests : requests[j] = requests[i] => j = i

\* page 2 of a playlist of more than two pages has failed with status 500 as
\* the third request, and the call has raised
C15_Witness ==
    /\ pc = "done"
    /\ op = "get_playlist_info"
    /\ args.kind = "playlist"
    /\ args.n > 2 * page_size
    /\ Len(requests) = 3
    /\ LaterPageFails(3)
    /\ requests[3].params.page = 2
    /\ result = Raise("ConnectionError", Failure(500).text)

\* the place of the token request among the requests of auth and of refresh
TokenRequest == IF op = "refresh" THEN 1 ELSE 3

\* the call in progress is an auth or a refresh whose token request the vendor
\* has answered with 200
TokenGranted ==
    /\ op \in {"__init__", "login", "refresh"}
    /\ Len(requests) >= TokenRequest
    /\ Answer(TokenRequest).status = 200

\* the session the granted token document describes
GrantedSession ==
    LET data == Answer(TokenRequest).json
    IN  [access_token |-> data.access_token,
         refresh_token |-> data.refresh_token,
         expires |-> Some(CallServer.now + data.expires_in)]

AlbumFields(album_data) ==
    [album |-> Get(album_data, "name", None),
     album_id |-> IF "id" \in DOMAIN album_data THEN Some(album_data.id) ELSE Nothing,
     album_artist |-> Get(Get(album_data, "artists", <<EmptyDict>>)[1], "name", None),
     total_tracks |-> IF "track_count" \in DOMAIN album_data
                      THEN Some(album_data.track_count) ELSE Nothing,
     upc |-> Get(album_data, "upc", None)]

\* the album fields of the record the call in progress returned
ReturnedAlbumFields ==
    [album |-> result.value.album,
     album_id |-> result.value.album_id,
     album_artist |-> result.value.tags.album_artist,
     total_tracks |-> result.value.tags.total_tracks,
     upc |-> result.value.tags.upc]

\* C17: for every cache dict get_playlist_info or get_album_info produced,
\* get_track_info called with it builds the album fields of the record it
\* returns from the release record of the track's release, cached or fetched
\* with get_release, and never from a track record, also when a cached track
\* has the release's id as its numeric id.
C17_AlbumFromRelease ==
    (pc = "done" /\ op = "get_track_info" /\ Returned(result)) =>
        /\ args.release = "ok" => ReturnedAlbumFields = AlbumFields(ReleaseDoc(50))
        /\ ReturnedAlbumFields \in {AlbumFields(ReleaseDoc(50)), AlbumFields(EmptyDict)}

====
